---------------------------- MODULE Spec2Model ----------------------------
(***************************************************************************)
(* A state-machine model of the grid simulation core of brickgame_pygame:  *)
(* the Block cell (block.py), the Game engine (games/game_engine.py) and   *)
(* the games built on it (games/snake.py, games/breakout.py,               *)
(* games/tetris.py).                                                       *)
(*                                                                         *)
(* One behaviour plays one game.  The variable `game` says which; every    *)
(* game has its own specification (SpecBlock, SpecSnake, ...).  The        *)
(* variables of the other games keep their initial value.                  *)
(*                                                                         *)
(* Grid coordinates are pairs <<i, j>>, i the column and j the row.        *)
(* A speed (a Python float, cells per second) is stored as the integer     *)
(* speed * SpeedDen; every speed the code computes from its initial values *)
(* by doubling and halving is such an integer within the bounds below.     *)
(***************************************************************************)
EXTENDS Integers, Sequences, FiniteSets, Bags, TLC

(***************************************************************************)
(* Program constants (constants.py).                                       *)
(***************************************************************************)
TICK_RATE == 16

FPS == 1000 \div TICK_RATE

PIXEL_SIDE == 3

BLOCK_SIDE == PIXEL_SIDE * 10

DIST_BLOCKS == BLOCK_SIDE + PIXEL_SIDE

GridW == 10

GridH == 20

Dirs == {"up", "down", "left", "right"}

CONVERT(d) ==
    CASE d = "down"  -> <<0, 1>>
      [] d = "up"    -> <<0, -1>>
      [] d = "right" -> <<1, 0>>
      [] d = "left"  -> <<-1, 0>>
      [] d = ""      -> <<0, 0>>

(***************************************************************************)
(* Representation of speeds and of Python's int().                         *)
(***************************************************************************)
SpeedDen == 8

\* int(x/d) for an integer x and d > 0: Python truncates towards zero.
PyIntDiv(x, d) == IF x >= 0 THEN x \div d ELSE -((-x) \div d)

\* int(FPS/speed) for speed > 0 (speed given as speed * SpeedDen).
Period(sp) == (FPS * SpeedDen) \div sp

Add2(p, q) == <<p[1] + q[1], p[2] + q[2]>>

InGrid(p) == 0 <= p[1] /\ p[1] < GridW /\ 0 <= p[2] /\ p[2] < GridH

(***************************************************************************)
(* Bounds of the model.                                                    *)
(***************************************************************************)
\* update() is called with ticks 0..MaxBlockTick in SpecBlock
MaxBlockTick == 13

\* coordinates of the free-standing Block stay within -MaxCoord..MaxCoord
MaxCoord == 2

\* frames played in one behaviour of a game specification
MaxFrames == 6

\* the accelerate key doubles the speed at most MaxSpeedUp times over the base
MaxSpeedUp == 2

\* ... and halves it at most MaxSlowDown times under the base
MaxSlowDown == 0

\* frames played in one behaviour of SpecBreakout
MaxBreakoutFrames == 5

\* frames played in one behaviour of SpecTetris
MaxTetrisFrames == 5

\* key events handled in one behaviour of SpecTetris
MaxTetrisEvents == 3

\* charges in the registry Bomb._bombs at a time
MaxBombs == 2

VARIABLES
    game,       \* which program runs: "Block", "Snake", "Breakout", "Tetris",
                \* "Asteroids", "Client", or the class or method under test ("CheckHit",
                \* "Bomb", "Score")
    crashed,    \* an uncaught exception (or an endless loop) has ended the program
    call,       \* SpecBlock, SpecBomb, SpecScore, SpecAsteroids: the last method
                \* called, with its arguments and what it returned or counted
    blk,        \* SpecBlock: the Block under test [coords, dir, disp]
    t,          \* BaseClient._loop: the timer, after the last frame
    tEnd,       \* the timer value at which the behaviour is cut off
    score,      \* Game.score
    highest_score, \* Game.highest_score
    speed,      \* Game.speed * SpeedDen
    paused,     \* Game.paused
    running,    \* Game.running
    screens,    \* the VictoryScreen()/DefeatScreen() drawn since __init__/reset
    store,      \* high-scores.json: the entry of this game
    fileOk,     \* high-scores.json can be read and holds the entry
    fileKind,   \* high-scores.json: "json" (it holds the entry), "nokey" (JSON
                \* without the entry), "text" (not JSON), "empty" (no content),
                \* "none" (no file), "locked" (it cannot be opened)
    segments,   \* Snake.Body.segments (= Body.coords): coordinates, head first
    bodyGroup,  \* Snake.entities["body"]: coordinates of its sprites
    food,       \* Snake.Food.coords
    foodGroup,  \* Snake.entities["food"]: coordinates of its sprites
    foodOn,     \* the food's image is the active one (BlinkingBlock)
    direction,  \* Snake.direction (class attribute)
    growing,    \* Snake.growing (class attribute)
    key_enabled, \* Snake.key_enabled
    level,      \* Breakout.level
    number,     \* Breakout.number (class attribute)
    total,      \* Breakout._total (class attribute)
    targetBlock, \* Breakout.Target.block: the cells that are its keys
    targetGroup, \* Breakout.entities["target"]: cells of its sprites
    ball,       \* Breakout.Ball [coords, dir, disp, velocity]
    ballGroup,  \* the ball is in Breakout.entities["ball"]
    paddle,     \* Breakout.Paddle [cell, blocks, coords]: cell[k] is the
                \* coords of its k-th Block, blocks lists Blocks (0: the ball)
    paddleGroup, \* Breakout.entities["paddle"]: its Blocks (0: the ball)
    paddleDirection, \* Breakout.Paddle.direction (class attribute)
    dragging,   \* Breakout.Paddle.dragging (class attribute)
    pieceDirection, \* Tetris.Piece.direction (class attribute)
    stored_shape, \* Tetris.Piece.stored_shape (class attribute)
    piece,      \* Tetris.piece [active_shape, coords, next_id, cells, height,
                \* lock_switch]: cells are the coords of the Blocks of self.piece
    pieceGroup, \* Tetris.entities["piece"]: cells of its sprites
    fallen,     \* Tetris.entities["fallen"]: the bag of the cells of its sprites
    fallenHeight, \* Tetris.FallenBlocks.height
    events,     \* key events BaseClient._handle_events has passed to Tetris
    bombs,      \* Bomb._bombs (class attribute): a list of charges [cells, drawn],
                \* cells the coords of its 16 Blocks, drawn: they are in the group
    targets,    \* the cells of the sprites of the group the bombs destroy
                \* (Asteroids.entities["asteroids"] in Asteroids)
    shooter,    \* Asteroids.shooter.coords
    shooterDirection, \* Asteroids.Shooter.direction (class attribute)
    game_ticks, \* Asteroids.game_ticks
    environment, \* Brickgame.environment: "selector" or "game"
    playing,    \* SpecClient: the game of the Selector's stage, Brickgame.game
                \* once it has been entered
    held,       \* SpecClient: K_SPACE is down on the keyboard
    bulletGroup \* Asteroids.entities["bullet"]: cells of its sprites

bombVars == <<bombs, targets>>

blockVars == <<call, blk, bombVars>>

engineVars == <<t, tEnd, score, highest_score, speed, paused, running, screens,
                store, fileOk, fileKind>>

snakeVars == <<segments, bodyGroup, food, foodGroup, foodOn, direction, growing,
               key_enabled>>

breakoutVars == <<level, number, total, targetBlock, targetGroup, ball,
                  ballGroup, paddle, paddleGroup, paddleDirection, dragging>>

tetrisVars == <<pieceDirection, stored_shape, piece, pieceGroup, fallen,
                fallenHeight, events>>

asteroidsVars == <<shooter, shooterDirection, bulletGroup, game_ticks>>
clientVars == <<environment, playing, held>>

vars == <<game, crashed, blockVars, engineVars, snakeVars, breakoutVars,
          tetrisVars, asteroidsVars, clientVars>>

(***************************************************************************)
(* block.py: Block                                                         *)
(***************************************************************************)
\* Block.set_direction as a plausible slip: "" handled like the others.
BlockSetDirectionClearing(b, d) ==
    [b EXCEPT !.dir = d,
              !.disp = <<CONVERT(d)[1] * DIST_BLOCKS, CONVERT(d)[2] * DIST_BLOCKS>>]

\* Block.set_direction(direction)
BlockSetDirection(b, d) ==
    IF d # ""
    THEN [b EXCEPT !.dir = d,
                   !.disp = <<CONVERT(d)[1] * DIST_BLOCKS,
                              CONVERT(d)[2] * DIST_BLOCKS>>]
    ELSE b

\* Block.set_position(i, j)
BlockSetPosition(b, i, j) == [b EXCEPT !.coords = <<i, j>>]

\* Block.__init__(i, j, direction)
BlockNew(i, j, d) ==
    BlockSetDirection(
        BlockSetPosition([coords |-> <<i, j>>, dir |-> d, disp |-> <<0, 0>>], i, j),
        d)

\* Block.update raises ZeroDivisionError when int(FPS/speed) is 0
BlockUpdateRaises(b, tt, sp) == b.dir # "" /\ sp > 0 /\ Period(sp) = 0

\* Block.update as a plausible slip: no test of the action rate
BlockUpdateEveryTick(b, tt, sp) ==
    IF b.dir # "" /\ sp > 0
    THEN [b EXCEPT !.coords = <<b.coords[1] + PyIntDiv(b.disp[1], DIST_BLOCKS),
                                b.coords[2] + PyIntDiv(b.disp[2], DIST_BLOCKS)>>]
    ELSE b

\* Block.update(t, speed): the cell after the call (unchanged when it raises)
BlockUpdate(b, tt, sp) ==
    IF b.dir # "" /\ sp > 0 /\ Period(sp) # 0 /\ tt % Period(sp) = 0
    THEN [b EXCEPT !.coords = <<b.coords[1] + PyIntDiv(b.disp[1], DIST_BLOCKS),
                                b.coords[2] + PyIntDiv(b.disp[2], DIST_BLOCKS)>>]
    ELSE b

(***************************************************************************)
(* block.py: Bomb.  Its methods are operators on a record st of the        *)
(* registry and the target group: [bombs, targets].                        *)
(***************************************************************************)
\* the coords of the 16 Blocks of Bomb(i, j, group), in the order of the list
BombCells(i, j) ==
    << <<i, j>>, <<i, j + 3>>, <<i + 3, j>>, <<i + 3, j + 3>>,
       <<i + 1, j + 1>>, <<i + 1, j + 2>>, <<i + 2, j + 1>>, <<i + 2, j + 2>>,
       <<i, j + 1>>, <<i, j + 2>>, <<i + 3, j + 1>>, <<i + 3, j + 2>>,
       <<i + 1, j>>, <<i + 2, j>>, <<i + 1, j + 3>>, <<i + 2, j + 3>> >>

\* Bomb(i, j, group=...)
BombNew(st, i, j) ==
    [st EXCEPT !.bombs = Append(@, [cells |-> BombCells(i, j), drawn |-> TRUE])]

\* the list without its k-th element
Without(seq, k) == SubSeq(seq, 1, k - 1) \o SubSeq(seq, k + 1, Len(seq))

\* Bomb.move as a plausible slip: a charge leaves the registry one row late
BombMoveLate(st, d) ==
    LET Moved(c) ==
            [c EXCEPT !.cells =
                [k \in 1..Len(c.cells) |->
                    BlockSetPosition([coords |-> c.cells[k]],
                                     c.cells[k][1] + CONVERT(d)[1],
                                     c.cells[k][2] + CONVERT(d)[2]).coords]]
        Stays(c) == ~(\/ d = "up" /\ c.cells[1][2] < -1
                      \/ d = "down" /\ c.cells[1][2] >= 18)
    IN  [st EXCEPT !.bombs =
            SelectSeq([k \in 1..Len(st.bombs) |-> Moved(st.bombs[k])], Stays)]

\* Bomb.move(direction): every charge moves, whether drawn or not, and leaves
\* the registry when its first Block is above row 0 or below row 16
BombMove(st, d) ==
    LET Moved(c) ==
            [c EXCEPT !.cells =
                [k \in 1..Len(c.cells) |->
                    BlockSetPosition([coords |-> c.cells[k]],
                                     c.cells[k][1] + CONVERT(d)[1],
                                     c.cells[k][2] + CONVERT(d)[2]).coords]]
        Stays(c) == ~(\/ d = "up" /\ c.cells[1][2] < 0
                      \/ d = "down" /\ c.cells[1][2] >= 17)
    IN  [st EXCEPT !.bombs =
            SelectSeq([k \in 1..Len(st.bombs) |-> Moved(st.bombs[k])], Stays)]

\* Bomb.explode as a plausible slip: the blast reaches 1 Block from the edges
BombExplodeShort(st, k) ==
    LET i == st.bombs[k].cells[1][1]
        j == st.bombs[k].cells[1][2]
    IN  [bombs |-> Without(st.bombs, k),
         targets |-> {e \in st.targets :
                        ~(/\ i - 1 <= e[1] /\ e[1] <= i + 4
                          /\ j - 1 <= e[2] /\ e[2] <= j + 4)}]

\* Bomb.explode(target_group, index), k the place of Bomb._bombs[index]
BombExplode(st, k) ==
    LET i == st.bombs[k].cells[1][1]
        j == st.bombs[k].cells[1][2]
    IN  [bombs |-> Without(st.bombs, k),
         targets |-> {e \in st.targets :
                        ~(/\ i - 2 <= e[1] /\ e[1] <= i + 5
                          /\ j - 2 <= e[2] /\ e[2] <= j + 5)}]

\* the place in the list of the Python index x, 0 when it is out of range
Place0(seq, x) ==
    IF 0 <= x /\ x < Len(seq) THEN x + 1
    ELSE IF x < 0 /\ -x <= Len(seq) THEN Len(seq) + x + 1
    ELSE 0

\* the test of check_explosion as a plausible slip: the blast window of
\* explode is tested in place of the 4 x 4 Blocks
BombTouchedInBlast(c, tg) ==
    \E e \in tg : /\ c.cells[1][1] - 2 <= e[1] /\ e[1] <= c.cells[1][1] + 5
                  /\ c.cells[1][2] - 2 <= e[2] /\ e[2] <= c.cells[1][2] + 5

\* a sprite of the target group lies on the 4 x 4 Blocks of the charge c
BombTouched(c, tg) ==
    \E e \in tg : /\ c.cells[1][1] <= e[1] /\ e[1] <= c.cells[1][1] + 3
                  /\ c.cells[1][2] <= e[2] /\ e[2] <= c.cells[1][2] + 3

\* Bomb.check_explosion(target_group): the loop from the k-th charge down
RECURSIVE BombCheckFrom(_, _)
BombCheckFrom(st, k) ==
    IF k = 0 THEN st
    ELSE BombCheckFrom(IF BombTouched(st.bombs[k], st.targets)
                       THEN BombExplode(st, k) ELSE st, k - 1)

BombCheckExplosion(st) == BombCheckFrom(st, Len(st.bombs))

\* the groups are emptied (Game.reset, toggle_victory, toggle_defeat); the
\* registry is a class attribute of Bomb and no method of Game touches it
BombGroupsEmptied(st) ==
    [bombs |-> [k \in 1..Len(st.bombs) |-> [st.bombs[k] EXCEPT !.drawn = FALSE]],
     targets |-> {}]

(***************************************************************************)
(* games/game_engine.py: Game                                              *)
(***************************************************************************)
MaxScore == 100000000

\* Game.update_score: [score, highest_score, store] after the call.  A failed
\* read leaves highest_score as it was; the write then fails too (high_scores
\* is unbound) and the exception is swallowed.
GameUpdateScore(sc, hs, st, ok) ==
    LET hs1 == IF ok THEN st ELSE hs
    IN  IF sc > hs1
        THEN LET sc2 == IF sc >= MaxScore THEN MaxScore - 1 ELSE sc
                 hs2 == IF sc >= MaxScore THEN hs1 ELSE sc
             IN  [score |-> sc2, highest_score |-> hs2,
                  store |-> IF ok THEN hs2 ELSE st]
        ELSE [score |-> sc, highest_score |-> hs1, store |-> st]

\* the states of high-scores.json that update_score tells apart
FileKinds == {"json", "nokey", "text", "empty", "none", "locked"}

\* Game.update_score on the file: the read succeeds on "json" only; the name
\* high_scores is bound when json.load returned ("json", "nokey"); the write
\* opens the file with mode "w", which empties or creates it, before
\* high_scores is used.  opened: open(..., "w") was called; written: what
\* json.dump wrote for this game.  GameUpdateScore is this function on the
\* kinds "json" (ok) and "locked" (not ok).
GameUpdateScoreOnFile(sc, hs, st, kind) ==
    LET hs1 == IF kind = "json" THEN st ELSE hs
        bound == kind \in {"json", "nokey"}
        sc2 == IF sc >= MaxScore THEN MaxScore - 1 ELSE sc
        hs2 == IF sc >= MaxScore THEN hs1 ELSE sc
    IN  IF sc > hs1
        THEN [score |-> sc2, highest_score |-> hs2, opened |-> TRUE,
              written |-> IF bound THEN <<hs2>> ELSE <<>>,
              store |-> IF bound THEN hs2 ELSE st,
              kind |-> IF kind = "locked" THEN kind
                       ELSE IF bound THEN "json" ELSE "empty"]
        ELSE [score |-> sc, highest_score |-> hs1, opened |-> FALSE,
              written |-> <<>>, store |-> st, kind |-> kind]

\* Game.manage (the base part): with v = check_victory() and d = check_defeat(),
\* [running, screens, cleared]; cleared: the entity groups were emptied.
GameManage(run, psd, v, d, scr) ==
    IF run /\ ~psd
    THEN [running |-> ~(v \/ d),
          screens |-> scr \o (IF v THEN <<"victory">> ELSE <<>>)
                          \o (IF d THEN <<"defeat">> ELSE <<>>),
          cleared |-> v \/ d]
    ELSE [running |-> run, screens |-> scr, cleared |-> FALSE]

\* BlinkingBlock.update(t): whether the image is the active one after the call
BlinkingUpdate(on, tt) ==
    IF tt > 0
    THEN IF tt % FPS = 0 THEN TRUE
         ELSE IF tt % FPS = FPS \div 2 THEN FALSE ELSE on
    ELSE on

(***************************************************************************)
(* games/snake.py: Snake                                                   *)
(***************************************************************************)
SnakeBaseSpeed == 10

SnakeFull == 200

Range(seq) == {seq[k] : k \in 1..Len(seq)}

AllCells == {<<i, j>> : i \in 0..(GridW - 1), j \in 0..(GridH - 1)}

\* The cells random.randint is taken to draw for the food.
FoodCells == {<<4, 4>>, <<4, 6>>, <<4, 7>>, <<3, 7>>}

\* Snake.check_eat as a plausible slip: the food respawns once, and the draw
\* is not tested against the snake
RespawnCellsUntested(segs) == FoodCells

\* Snake.check_eat: the cells the rejection loop can end on (the draws are
\* taken from FoodCells while one of them is free, and else the first free cell
\* in reading order is taken)
RespawnCells(segs) ==
    IF FoodCells \ Range(segs) # {}
    THEN FoodCells \ Range(segs)
    ELSE LET free == AllCells \ Range(segs)
         IN  {c \in free : \A e \in free : c[2] < e[2] \/ (c[2] = e[2] /\ c[1] <= e[1])}

\* Snake.Body.__init__
BodyInit == << <<4, 5>>, <<4, 4>>, <<4, 3>> >>

\* Snake.Body.move as a plausible slip: the tail is always removed
BodyMoveNoGrowth(segs, dir, grow) ==
    [segments |-> SubSeq(<<Add2(CONVERT(dir), segs[1])>> \o segs, 1, Len(segs)),
     growing |-> FALSE]

\* Snake.Body.move: [segments, growing] after the call
BodyMove(segs, dir, grow) ==
    LET longer == <<Add2(CONVERT(dir), segs[1])>> \o segs
    IN  IF grow
        THEN [segments |-> longer, growing |-> FALSE]
        ELSE [segments |-> SubSeq(longer, 1, Len(longer) - 1), growing |-> FALSE]

\* Snake.update_score: the bonus added before Game.update_score
SnakeBonus(n, grow) ==
    IF ~grow THEN 0
    ELSE IF 3 < n /\ n <= 25 THEN 15
    ELSE IF 25 < n /\ n <= 50 THEN 45
    ELSE IF 50 < n /\ n <= 100 THEN 100
    ELSE IF 100 < n /\ n < 200 THEN 250
    ELSE 0

\* Snake.check_victory
SnakeCheckVictory(segs) == Len(segs) = SnakeFull

\* Snake.check_defeat as a plausible slip: the body is not looked at
SnakeCheckDefeatWallsOnly(segs) == ~InGrid(segs[1])

\* Snake.check_defeat
SnakeCheckDefeat(segs) ==
    ~(InGrid(segs[1]) /\ segs[1] \notin Range(SubSeq(segs, 2, Len(segs))))

Opposite(d) ==
    CASE d = "up" -> "down" [] d = "down" -> "up"
      [] d = "left" -> "right" [] d = "right" -> "left"

\* Snake.handle_events, the direction keys, as a plausible slip: no test of
\* the current direction
SnakeTurnAnyway(dir, key) ==
    CASE key = "UP" -> "up" [] key = "DOWN" -> "down"
      [] key = "LEFT" -> "left" [] key = "RIGHT" -> "right"
      [] OTHER -> dir

\* Snake.handle_events, the direction keys: Snake.direction after the key
SnakeTurn(dir, key) ==
    IF key = "UP" /\ dir # "down" THEN "up"
    ELSE IF key = "DOWN" /\ dir # "up" THEN "down"
    ELSE IF key = "LEFT" /\ dir # "right" THEN "left"
    ELSE IF key = "RIGHT" /\ dir # "left" THEN "right"
    ELSE dir

SnakeKeys == {"P", "RETURN", "SPACE", "UP", "DOWN", "LEFT", "RIGHT"}

\* Snake.__init__ (through Game.__init__, Body.__init__, Food.__init__) with
\* the food drawn at f: the instance and its groups.  The class attributes
\* direction and growing are not touched.
SnakeNew(f) ==
    [score |-> 0, highest_score |-> 0, speed |-> SnakeBaseSpeed * SpeedDen,
     paused |-> FALSE, running |-> TRUE, screens |-> <<>>,
     key_enabled |-> FALSE, segments |-> BodyInit, bodyGroup |-> BodyInit,
     food |-> f, foodGroup |-> {f}, foodOn |-> TRUE]

SnakeIs(r) ==
    /\ score = r.score /\ highest_score = r.highest_score /\ speed = r.speed
    /\ paused = r.paused /\ running = r.running /\ screens = r.screens
    /\ key_enabled = r.key_enabled /\ segments = r.segments
    /\ bodyGroup = r.bodyGroup /\ food = r.food /\ foodGroup = r.foodGroup
    /\ foodOn = r.foodOn

SnakeBecomes(r) ==
    /\ score' = r.score /\ highest_score' = r.highest_score /\ speed' = r.speed
    /\ paused' = r.paused /\ running' = r.running /\ screens' = r.screens
    /\ key_enabled' = r.key_enabled /\ segments' = r.segments
    /\ bodyGroup' = r.bodyGroup /\ food' = r.food /\ foodGroup' = r.foodGroup
    /\ foodOn' = r.foodOn

\* Snake.reset
SnakeReset ==
    /\ direction' = "down"
    /\ growing' = FALSE
    /\ \E f \in FoodCells : SnakeBecomes(SnakeNew(f))

\* Snake.handle_events(key, KEYDOWN)
SnakeKeyDown ==
    /\ game = "Snake" /\ ~crashed
    /\ \E key \in SnakeKeys :
        IF key = "RETURN"
        THEN SnakeReset
        ELSE /\ paused' = IF key = "P" THEN ~paused ELSE paused
             /\ IF running /\ key = "SPACE"
                THEN /\ speed * 2 <= SnakeBaseSpeed * SpeedDen * (2 ^ MaxSpeedUp)
                     /\ speed' = speed * 2
                     /\ UNCHANGED <<key_enabled, direction>>
                ELSE IF running /\ key_enabled
                THEN /\ key_enabled' = FALSE
                     /\ direction' = SnakeTurn(direction, key)
                     /\ UNCHANGED speed
                ELSE UNCHANGED <<speed, key_enabled, direction>>
             /\ UNCHANGED <<score, highest_score, running, screens, segments,
                            bodyGroup, food, foodGroup, foodOn, growing>>
    /\ UNCHANGED <<asteroidsVars, clientVars, game, crashed, blockVars, breakoutVars, tetrisVars, t, tEnd, store, fileOk,
                   fileKind>>

\* Snake.handle_events(K_SPACE, KEYUP); the release of another key does nothing
SnakeKeyUp ==
    /\ game = "Snake" /\ ~crashed
    /\ running
    /\ speed * (2 ^ MaxSlowDown) >= SnakeBaseSpeed * SpeedDen * 2
    /\ speed' = speed \div 2
    /\ UNCHANGED <<asteroidsVars, clientVars, game, crashed, blockVars, breakoutVars, tetrisVars, t, tEnd, score, highest_score,
                   paused, running, screens, store, fileOk, fileKind, snakeVars>>

\* One pass of Brickgame.loop on Snake: manage(t) and update_entities(t=t)
SnakeFrame ==
    /\ game = "Snake" /\ ~crashed
    /\ t < tEnd
    /\ t' = t + 1
    /\ LET act == running /\ ~paused
           eat == act /\ segments[1] = food
       IN
       IF eat /\ AllCells \ Range(segments) = {}
       THEN \* check_eat: the rejection loop never ends
            /\ crashed' = TRUE
            /\ growing' = TRUE
            /\ UNCHANGED <<score, highest_score, speed, paused, running, screens,
                           store, segments, bodyGroup, food, foodGroup, foodOn,
                           direction, key_enabled>>
       ELSE \E nf \in (IF eat THEN RespawnCells(segments) ELSE {food}) :
            LET g1 == growing \/ eat
                fg1 == IF eat THEN {nf} ELSE foodGroup
            IN
            IF act /\ Period(speed) = 0
            THEN \* t % int(FPS/self.speed) raises ZeroDivisionError
                 /\ crashed' = TRUE
                 /\ growing' = g1
                 /\ food' = nf
                 /\ foodGroup' = fg1
                 /\ UNCHANGED <<score, highest_score, speed, paused, running,
                                screens, store, segments, bodyGroup, foodOn,
                                direction, key_enabled>>
            ELSE
            LET mv == act /\ t' % Period(speed) = 0
                us == GameUpdateScore(score + SnakeBonus(Len(segments), g1),
                                      highest_score, store, fileOk)
                bm == BodyMove(segments, direction, g1)
                segs1 == IF mv THEN bm.segments ELSE segments
                gm == GameManage(running, paused, SnakeCheckVictory(segs1),
                                 SnakeCheckDefeat(segs1), screens)
                fg2 == IF gm.cleared THEN {} ELSE fg1
            IN  /\ crashed' = FALSE
                /\ score' = IF mv THEN us.score ELSE score
                /\ highest_score' = IF mv THEN us.highest_score ELSE highest_score
                /\ store' = IF mv THEN us.store ELSE store
                /\ segments' = segs1
                /\ growing' = IF mv THEN bm.growing ELSE g1
                /\ key_enabled' = IF mv THEN TRUE ELSE key_enabled
                /\ food' = nf
                /\ running' = gm.running
                /\ screens' = gm.screens
                /\ bodyGroup' = IF gm.cleared THEN <<>>
                                ELSE IF mv THEN segs1 ELSE bodyGroup
                /\ foodGroup' = fg2
                /\ foodOn' = IF ~paused /\ fg2 # {}
                             THEN BlinkingUpdate(foodOn, t') ELSE foodOn
                /\ UNCHANGED <<speed, paused, direction>>
    /\ UNCHANGED <<asteroidsVars, clientVars, game, blockVars, breakoutVars, tetrisVars, tEnd, fileOk,
                   fileKind>>

(***************************************************************************)
(* Breakout (games/breakout.py).  The methods of manage() are operators on *)
(* a record s of the fields they read and write; s.raised tells that an    *)
(* exception was raised, which ends the manage call where it stands.       *)
(***************************************************************************)
BreakoutStartSpeed == 20

\* Paddle._size = len(self.blocks) - 1, taken before the ball is appended
PaddleSize == Len(<<1, 2, 3>>) - 1

Row(j, cols) == {<<i, j>> : i \in cols}

\* the sketch of Target.__init__ for each level, as a set of cells
Sketch(lv) ==
    CASE lv = 1 -> Row(0, 0..9) \cup Row(9, 0..9)
                   \cup UNION {Row(j, {0, 9}) : j \in {1, 2, 7, 8}}
                   \cup UNION {Row(j, {0, 3, 4, 5, 6, 9}) : j \in 3..6}
      [] lv = 2 -> UNION {Row(j, {0, 1, 8, 9}) : j \in {0, 6}}
                   \cup UNION {Row(j, {0, 1, 2, 7, 8, 9}) : j \in {1, 5}}
                   \cup UNION {Row(j, {1, 2, 3, 6, 7, 8}) : j \in {2, 4}}
                   \cup Row(3, 2..7)
      [] lv = 3 -> UNION {Row(j, 0..9) : j \in {0, 2, 4, 6}}
                   \cup UNION {Row(j, {0, 4, 5, 9}) : j \in {1, 3, 5}}
      [] OTHER -> {}

\* [x*DIST_BLOCKS for x in velocity]
Displacement(v) == <<v[1] * DIST_BLOCKS, v[2] * DIST_BLOCKS>>

\* list.pop()
Pop(seq) == SubSeq(seq, 1, Len(seq) - 1)

\* coords[:self._size], as a set
Front(c) == {c[k] : k \in 1..(IF Len(c) < PaddleSize THEN Len(c) ELSE PaddleSize)}

\* Target(level): levels above 3 leave self.block unset, and len(self.block)
\* raises AttributeError after the group was emptied
TargetNew(s, lv) ==
    IF lv \in 1..3
    THEN [s EXCEPT !.targetBlock = Sketch(lv), !.targetGroup = Sketch(lv),
                   !.total = Cardinality(Sketch(lv)),
                   !.number = Cardinality(Sketch(lv))]
    ELSE [s EXCEPT !.targetGroup = {}, !.raised = TRUE]

BallNew(s, i, j) ==
    LET b == BlockNew(i, j, "")
    IN  [s EXCEPT !.ball = [coords |-> b.coords, dir |-> b.dir, disp |-> b.disp,
                            velocity |-> <<0, 0>>],
                  !.ballGroup = TRUE]

PaddleNew(s) ==
    [s EXCEPT !.paddle = [cell |-> [k \in 1..3 |-> BlockNew(2 + k, 19, "").coords],
                          blocks |-> <<1, 2, 3, 0>>,
                          coords |-> << <<3, 19>>, <<4, 19>>, <<5, 19>>,
                                        s.ball.coords >>],
              !.paddleGroup = @ \cup {0, 1, 2, 3}]

\* Target.check_hit as a plausible slip: the horizontal hit is tested before
\* the corner
TargetCheckHitSideFirst(s) ==
    IF s.raised THEN s ELSE
    LET a == s.ball.velocity[1]
        b == s.ball.velocity[2]
        i == s.ball.coords[1]
        j == s.ball.coords[2]
        K == s.targetBlock
        h == <<i + a, j>>
        v == <<i, j + b>>
        d == <<i + a, j + b>>
        r == IF h \in K THEN [vel |-> <<-a, b>>, dead |-> {h}]
             ELSE IF v \in K THEN [vel |-> <<a, -b>>, dead |-> {v}]
             ELSE IF d \in K THEN [vel |-> <<-a, -b>>, dead |-> {d}]
             ELSE [vel |-> <<a, b>>, dead |-> {}]
    IN  [s EXCEPT !.ball.velocity = r.vel,
                  !.ball.disp = Displacement(r.vel),
                  !.targetBlock = @ \ r.dead,
                  !.targetGroup = @ \ r.dead]

\* Target.check_hit as a plausible slip: the sprites are killed and their keys
\* are left in the mapping
TargetCheckHitKeepsKeys(s) ==
    IF s.raised THEN s ELSE
    LET a == s.ball.velocity[1]
        b == s.ball.velocity[2]
        i == s.ball.coords[1]
        j == s.ball.coords[2]
        K == s.targetBlock
        h == <<i + a, j>>
        v == <<i, j + b>>
        d == <<i + a, j + b>>
        r == IF h \in K /\ v \in K
             THEN [vel |-> <<-a, -b>>, dead |-> {h, v} \cup ({d} \cap K)]
             ELSE IF h \in K THEN [vel |-> <<-a, b>>, dead |-> {h}]
             ELSE IF v \in K THEN [vel |-> <<a, -b>>, dead |-> {v}]
             ELSE IF d \in K THEN [vel |-> <<-a, -b>>, dead |-> {d}]
             ELSE [vel |-> <<a, b>>, dead |-> {}]
    IN  [s EXCEPT !.ball.velocity = r.vel,
                  !.ball.disp = Displacement(r.vel),
                  !.targetGroup = @ \ r.dead]

\* Target.check_hit(ball)
TargetCheckHit(s) ==
    IF s.raised THEN s ELSE
    LET a == s.ball.velocity[1]
        b == s.ball.velocity[2]
        i == s.ball.coords[1]
        j == s.ball.coords[2]
        K == s.targetBlock
        h == <<i + a, j>>
        v == <<i, j + b>>
        d == <<i + a, j + b>>
        r == IF h \in K /\ v \in K
             THEN \* the second del raises KeyError when both keys are the same
                  [vel |-> <<-a, -b>>, dead |-> {h, v} \cup ({d} \cap K),
                   err |-> (h = v)]
             ELSE IF h \in K THEN [vel |-> <<-a, b>>, dead |-> {h}, err |-> FALSE]
             ELSE IF v \in K THEN [vel |-> <<a, -b>>, dead |-> {v}, err |-> FALSE]
             ELSE IF d \in K THEN [vel |-> <<-a, -b>>, dead |-> {d}, err |-> FALSE]
             ELSE [vel |-> <<a, b>>, dead |-> {}, err |-> FALSE]
    IN  [s EXCEPT !.ball.velocity = r.vel,
                  !.ball.disp = IF r.err THEN @ ELSE Displacement(r.vel),
                  !.targetBlock = @ \ r.dead,
                  !.targetGroup = @ \ r.dead,
                  !.raised = r.err]

\* Ball.check_border_reflect as a plausible slip: no reflection at the right
\* border
BallCheckBorderReflectLeftOnly(s) ==
    IF s.raised THEN s ELSE
    LET a == s.ball.velocity[1]
        b == s.ball.velocity[2]
        i == s.ball.coords[1]
        j == s.ball.coords[2]
        a2 == IF i = 0 /\ a = -1 THEN -a ELSE a
        b2 == IF j = 0 /\ b = -1 THEN 1 ELSE b
    IN  [s EXCEPT !.ball.velocity = <<a2, b2>>,
                  !.ball.disp = IF ~s.dragging THEN Displacement(<<a2, b2>>)
                                ELSE @]

\* Ball.check_border_reflect()
BallCheckBorderReflect(s) ==
    IF s.raised THEN s ELSE
    LET a == s.ball.velocity[1]
        b == s.ball.velocity[2]
        i == s.ball.coords[1]
        j == s.ball.coords[2]
        a2 == IF (i = 0 /\ a = -1) \/ (i = 9 /\ a = 1) THEN -a ELSE a
        b2 == IF j = 0 /\ b = -1 THEN 1 ELSE b
    IN  [s EXCEPT !.ball.velocity = <<a2, b2>>,
                  !.ball.disp = IF ~s.dragging THEN Displacement(<<a2, b2>>)
                                ELSE @]

BreakoutUpdateScore(s, ok) ==
    IF s.raised THEN s ELSE
    LET n == Cardinality(s.targetGroup)
        hits == IF s.number > n THEN s.number - n ELSE 0
        each == CASE s.level = 1 -> 15 [] s.level = 2 -> 20 [] s.level = 3 -> 30
                  [] OTHER -> 0
        us == GameUpdateScore(s.score + hits * each, s.highest_score, s.store, ok)
    IN  [s EXCEPT !.score = us.score, !.highest_score = us.highest_score,
                  !.store = us.store, !.number = n]

BreakoutManageLevels(s) ==
    IF s.raised \/ s.targetGroup # {} THEN s ELSE
    LET lv == s.level + 1
        s1 == TargetNew([s EXCEPT !.level = lv,
                                  !.score = @ + 3000 + 3000 * (lv - 1)], lv)
    IN  IF s1.raised THEN s1
        ELSE PaddleNew([BallNew(s1, 4, 18) EXCEPT !.paddleGroup = {}])

PaddleCheckPaddleDrag(s) ==
    IF s.raised THEN s ELSE
    LET i == s.ball.coords[1]
        j == s.ball.coords[2]
        b == s.ball.velocity[2]
    IN  IF <<i, j + b>> \in Front(s.paddle.coords)
        THEN IF ~s.dragging
             THEN [s EXCEPT !.ball.disp = <<0, 0>>, !.dragging = TRUE,
                            !.paddle.blocks = Append(@, 0),
                            !.paddleGroup = @ \cup {0}]
             ELSE [s EXCEPT !.ball.disp = <<0, 0>>, !.dragging = FALSE,
                            !.paddle.blocks = Pop(@),
                            !.paddle.coords = Pop(@),
                            !.paddleGroup = @ \ {0}]
        ELSE [s EXCEPT !.ball.disp = Displacement(s.ball.velocity)]

\* Paddle.check_paddle_reflect as a plausible slip: the middle cell sends the
\* ball straight up
PaddleCheckPaddleReflectStraightUp(s) ==
    IF s.raised \/ s.dragging THEN s ELSE
    LET a == s.ball.velocity[1]
        b == s.ball.velocity[2]
        i == s.ball.coords[1]
        j == s.ball.coords[2]
        c == s.paddle.coords
        v == <<i, j + b>>
        d == <<i + a, j + b>>
        hit == v \in Front(c) \/ d \in Front(c)
        a2 == IF ~hit THEN a
              ELSE IF v = c[1] \/ d = c[1] THEN -1
              ELSE IF v = c[PaddleSize] \/ d = c[PaddleSize] THEN 0
              ELSE a
        b2 == IF hit THEN -1 ELSE b
    IN  [s EXCEPT !.ball.velocity = <<a2, b2>>,
                  !.ball.disp = Displacement(<<a2, b2>>)]

\* Paddle.check_paddle_reflect()
PaddleCheckPaddleReflect(s) ==
    IF s.raised \/ s.dragging THEN s ELSE
    LET a == s.ball.velocity[1]
        b == s.ball.velocity[2]
        i == s.ball.coords[1]
        j == s.ball.coords[2]
        c == s.paddle.coords
        v == <<i, j + b>>
        d == <<i + a, j + b>>
        hit == v \in Front(c) \/ d \in Front(c)
        a2 == IF ~hit THEN a
              ELSE IF v = c[1] \/ d = c[1] THEN -1
              ELSE IF v = c[PaddleSize] \/ d = c[PaddleSize] THEN 1
              ELSE a
        b2 == IF hit THEN -1 ELSE b
    IN  [s EXCEPT !.ball.velocity = <<a2, b2>>,
                  !.ball.disp = Displacement(<<a2, b2>>)]

PaddleMove(s, dir, sp) ==
    IF s.raised THEN s ELSE
    LET bl == s.paddle.blocks
        i0 == s.paddle.coords[1][1]
        a == CONVERT(dir)[1]
        shift == IF 0 <= i0 + a /\ i0 + a < GridW - PaddleSize THEN a ELSE 0
        nBall == Cardinality({k \in 1..Len(bl) : bl[k] = 0})
        cell2 == [k \in 1..3 |->
                    IF k \in Range(bl)
                    THEN BlockSetPosition([coords |-> s.paddle.cell[k]],
                                          s.paddle.cell[k][1] + shift,
                                          s.paddle.cell[k][2]).coords
                    ELSE s.paddle.cell[k]]
        ballc == <<s.ball.coords[1] + nBall * shift, s.ball.coords[2]>>
        coords2 == [k \in 1..Len(bl) |->
                      IF bl[k] = 0 THEN ballc ELSE cell2[bl[k]]]
        s1 == [s EXCEPT !.paddle.cell = cell2, !.ball.coords = ballc,
                        !.paddle.coords = coords2]
    IN  IF sp > BreakoutStartSpeed * SpeedDen /\ Len(coords2) = 4
           /\ s.number = s.total
        THEN [s1 EXCEPT !.paddleGroup = @ \ {0},
                        !.paddle.blocks = Pop(@),
                        !.paddle.coords = Pop(@),
                        !.ball.dir = "NE",
                        !.ball.velocity = <<1, -1>>]
        ELSE s1

\* the state after the method m has run on the state s
Run(m(_), s) == CHOOSE r \in {m(v) : v \in {s}} : TRUE

\* manage(), the action tick, up to the call of check_paddle_drag
BreakoutManageToPaddle(s, ok) ==
    LET UpdateScore(v) == BreakoutUpdateScore(v, ok)
    IN  Run(BreakoutManageLevels, Run(UpdateScore, Run(TargetCheckHit,
        Run(BallCheckBorderReflect,
        Run(BreakoutManageLevels, Run(UpdateScore, Run(TargetCheckHit, s)))))))

\* manage(), the action tick, from check_paddle_drag on
BreakoutManageFromPaddle(s, dir, sp) ==
    LET Move(v) == PaddleMove(v, dir, sp)
    IN  Run(Move, Run(BallCheckBorderReflect, Run(PaddleCheckPaddleReflect,
        Run(PaddleCheckPaddleDrag, s))))

\* manage(), the whole action tick
BreakoutManageTick(s, dir, sp, ok) ==
    BreakoutManageFromPaddle(BreakoutManageToPaddle(s, ok), dir, sp)

BreakoutCheckVictory(s) == s.level = 4

BreakoutCheckDefeat(s) == s.ball.coords[2] > 19

\* the fields of the running Breakout that manage() reads and writes
BreakoutState ==
    [level |-> level, number |-> number, total |-> total,
     targetBlock |-> targetBlock, targetGroup |-> targetGroup,
     ball |-> ball, ballGroup |-> ballGroup,
     paddle |-> paddle, paddleGroup |-> paddleGroup, dragging |-> dragging,
     score |-> score, highest_score |-> highest_score, store |-> store,
     raised |-> FALSE]

BreakoutBecomes(s) ==
    /\ level' = s.level /\ number' = s.number /\ total' = s.total
    /\ targetBlock' = s.targetBlock /\ targetGroup' = s.targetGroup
    /\ ball' = s.ball /\ ballGroup' = s.ballGroup
    /\ paddle' = s.paddle /\ paddleGroup' = s.paddleGroup
    /\ dragging' = s.dragging
    /\ score' = s.score /\ highest_score' = s.highest_score /\ store' = s.store

\* Breakout.__init__ on emptied groups; the class attributes Paddle.dragging
\* and the high-scores file are what they were
BreakoutNew(drag, st) ==
    PaddleNew(BallNew(TargetNew(
        [level |-> 1, number |-> 0, total |-> 0,
         targetBlock |-> {}, targetGroup |-> {},
         ball |-> [coords |-> <<0, 0>>, dir |-> "", disp |-> <<0, 0>>,
                   velocity |-> <<0, 0>>],
         ballGroup |-> FALSE,
         paddle |-> [cell |-> [k \in 1..3 |-> <<0, 0>>], blocks |-> <<>>,
                     coords |-> <<>>],
         paddleGroup |-> {}, dragging |-> drag,
         score |-> 0, highest_score |-> 0, store |-> st, raised |-> FALSE],
        1), 4, 18))

\* Game.reset: Breakout does not override it
BreakoutReset ==
    /\ \E s \in {BreakoutNew(dragging, store)} : BreakoutBecomes(s)
    /\ speed' = BreakoutStartSpeed * SpeedDen
    /\ paused' = FALSE /\ running' = TRUE /\ screens' = <<>>
    /\ UNCHANGED paddleDirection

BreakoutKeys == {"P", "RETURN", "LEFT", "RIGHT", "SPACE"}

BreakoutKey(key) ==
    /\ game = "Breakout" /\ ~crashed
    /\ IF key = "RETURN" THEN BreakoutReset
       ELSE /\ paused' = IF key = "P" THEN ~paused ELSE paused
            /\ IF running /\ key \in {"LEFT", "RIGHT"}
               THEN /\ paddleDirection' = IF key = "LEFT" THEN "left" ELSE "right"
                    /\ UNCHANGED speed
               ELSE IF running /\ key = "SPACE"
               THEN /\ speed * 2 <= BreakoutStartSpeed * SpeedDen * (2^MaxSpeedUp)
                    /\ speed' = speed * 2
                    /\ UNCHANGED paddleDirection
               ELSE UNCHANGED <<speed, paddleDirection>>
            /\ UNCHANGED <<level, number, total, targetBlock, targetGroup, ball,
                           ballGroup, paddle, paddleGroup, dragging, score,
                           highest_score, store, running, screens>>
    /\ UNCHANGED <<asteroidsVars, clientVars, game, crashed, blockVars, snakeVars, tetrisVars, t, tEnd, fileOk,
                   fileKind>>

BreakoutKeyDown == \E key \in BreakoutKeys : BreakoutKey(key)

BreakoutKeyUp ==
    /\ game = "Breakout" /\ ~crashed /\ running
    /\ \E key \in {"LEFT", "RIGHT", "SPACE"} :
         IF key = "SPACE"
         THEN /\ speed * (2^MaxSlowDown) >= BreakoutStartSpeed * SpeedDen * 2
              /\ speed' = speed \div 2
              /\ UNCHANGED paddleDirection
         ELSE /\ paddleDirection' = ""
              /\ UNCHANGED speed
    /\ UNCHANGED <<asteroidsVars, clientVars, game, crashed, blockVars, snakeVars, tetrisVars, t, tEnd, score,
                   highest_score, paused, running, screens, store, fileOk, fileKind,
                   level, number, total, targetBlock, targetGroup, ball,
                   ballGroup, paddle, paddleGroup, dragging>>

\* one frame of Brickgame.loop: manage(t), then update_entities(t=t)
BreakoutFrame ==
    /\ game = "Breakout" /\ ~crashed /\ t < tEnd
    /\ t' = t + 1
    /\ LET act == running /\ ~paused
       IN
       IF act /\ Period(speed) = 0
       THEN \* int(FPS/speed) = 0: ZeroDivisionError
            /\ crashed' = TRUE
            /\ UNCHANGED <<level, number, total, targetBlock, targetGroup, ball,
                           ballGroup, paddle, paddleGroup, dragging, score,
                           highest_score, store, running, screens>>
       ELSE
         \E s1 \in {IF act /\ t' % Period(speed) = 0
                    THEN BreakoutManageTick(BreakoutState, paddleDirection,
                                            speed, fileOk)
                    ELSE BreakoutState} :
         IF s1.raised
         THEN /\ crashed' = TRUE
              /\ BreakoutBecomes(s1)
              /\ UNCHANGED <<running, screens>>
         ELSE
           \E gm \in {GameManage(running, paused, BreakoutCheckVictory(s1),
                                 BreakoutCheckDefeat(s1), screens)} :
           \E s2 \in {IF gm.cleared
                      THEN [s1 EXCEPT !.targetGroup = {}, !.ballGroup = FALSE,
                                      !.paddleGroup = {}]
                      ELSE s1} :
           \* the ball is updated once for each group that holds it
           \E ups \in {IF paused THEN 0
                       ELSE (IF s2.ballGroup THEN 1 ELSE 0)
                            + (IF 0 \in s2.paddleGroup THEN 1 ELSE 0)} :
           \E b1 \in {IF ups >= 1 THEN BlockUpdate(s2.ball, t', speed)
                      ELSE s2.ball} :
           \E b2 \in {IF ups >= 2 THEN BlockUpdate(b1, t', speed) ELSE b1} :
               /\ crashed' = (ups >= 1 /\ BlockUpdateRaises(s2.ball, t', speed))
               /\ BreakoutBecomes([s2 EXCEPT !.ball = b2])
               /\ running' = gm.running
               /\ screens' = gm.screens
    /\ UNCHANGED <<asteroidsVars, clientVars, game, blockVars, snakeVars, tetrisVars, tEnd, speed, paused, fileOk, fileKind,
                   paddleDirection>>

\* the values of Breakout's variables while another program runs
BreakoutIdle ==
    /\ level = 1 /\ number = 0 /\ total = 0
    /\ targetBlock = {} /\ targetGroup = {}
    /\ ball = [coords |-> <<0, 0>>, dir |-> "", disp |-> <<0, 0>>,
               velocity |-> <<0, 0>>]
    /\ ballGroup = FALSE
    /\ paddle = [cell |-> [k \in 1..3 |-> <<0, 0>>], blocks |-> <<>>,
                 coords |-> <<>>]
    /\ paddleGroup = {} /\ paddleDirection = "" /\ dragging = FALSE

(***************************************************************************)
(* Tetris (games/tetris.py).  USE_BOMBS is False there, so the draw of     *)
(* Piece.__init__ is never a Bomb and active_shape is never "B": the Bomb  *)
(* branches of Piece.__init__, handle_events and try_spawn_next are dead.  *)
(* speed is held as speed * TetrisSpeedDen, rounded down.                  *)
(***************************************************************************)
TetrisSpeedDen == 1000000

\* the values speed takes: 1, then each the float product of the one before
\* with 10**0.05 (9.999999999999984 is the 21st and is <= 10)
TetrisSpeeds ==
    << 1000000, 1122018, 1258925, 1412537, 1584893, 1778279, 1995262,
       2238721, 2511886, 2818382, 3162277, 3548133, 3981071, 4466835,
       5011872, 5623413, 6309573, 7079457, 7943282, 8912509, 9999999,
       11220184 >>

\* self.speed *= 10**0.05
TetrisScale(sp) ==
    LET k == CHOOSE n \in 1..Len(TetrisSpeeds) : TetrisSpeeds[n] = sp
    IN  TetrisSpeeds[k + 1]

\* int(FPS/self.speed)
FallPeriod(sp) == (FPS * TetrisSpeedDen) \div sp

\* int(FPS/(7 + 3*self.speed))
SidePeriod(sp) == (FPS * TetrisSpeedDen) \div (7 * TetrisSpeedDen + 3 * sp)

\* the shapes random.choice draws in the model, out of T J L S Z I O
TetrisShapes == {"T", "I", "O"}

\* Piece.place: for each shape the layouts of its rotation states, as the
\* offsets of the four Blocks from (i, j)
Offsets(shape) ==
    CASE shape = "T" ->
           << << <<-1, 0>>, <<0, 0>>, <<1, 0>>, <<0, -1>> >>,
              << <<-1, 0>>, <<0, 0>>, <<0, -1>>, <<0, 1>> >>,
              << <<-1, 0>>, <<0, 0>>, <<1, 0>>, <<0, 1>> >>,
              << <<0, -1>>, <<0, 0>>, <<1, 0>>, <<0, 1>> >> >>
      [] shape = "J" ->
           << << <<-1, -1>>, <<-1, 0>>, <<0, 0>>, <<1, 0>> >>,
              << <<0, -1>>, <<0, 0>>, <<0, 1>>, <<-1, 1>> >>,
              << <<-1, -1>>, <<0, -1>>, <<1, -1>>, <<1, 0>> >>,
              << <<-1, -1>>, <<0, -1>>, <<-1, 0>>, <<-1, 1>> >> >>
      [] shape = "L" ->
           << << <<-1, 0>>, <<0, 0>>, <<1, 0>>, <<1, -1>> >>,
              << <<-1, -1>>, <<0, -1>>, <<0, 0>>, <<0, 1>> >>,
              << <<-1, 0>>, <<-1, -1>>, <<0, -1>>, <<1, -1>> >>,
              << <<-1, -1>>, <<-1, 0>>, <<-1, 1>>, <<0, 1>> >> >>
      [] shape = "S" ->
           << << <<-1, 0>>, <<0, 0>>, <<0, -1>>, <<1, -1>> >>,
              << <<0, 1>>, <<0, 0>>, <<-1, 0>>, <<-1, -1>> >> >>
      [] shape = "Z" ->
           << << <<-1, -1>>, <<0, -1>>, <<0, 0>>, <<1, 0>> >>,
              << <<0, -1>>, <<0, 0>>, <<-1, 0>>, <<-1, 1>> >> >>
      [] shape = "I" ->
           << << <<-1, 0>>, <<0, 0>>, <<1, 0>>, <<2, 0>> >>,
              << <<0, -1>>, <<0, 0>>, <<0, 1>>, <<0, 2>> >> >>
      [] shape = "O" ->
           << << <<0, 0>>, <<0, 1>>, <<1, 0>>, <<1, 1>> >> >>

\* Piece.place(shape, i, j): self.blocks, id -> (next id, cells)
Place(shape, i, j) ==
    [k \in 1..Len(Offsets(shape)) |->
       [next_id |-> IF k = Len(Offsets(shape)) THEN 1 ELSE k + 1,
        cells |-> [n \in 1..4 |-> BlockNew(i + Offsets(shape)[k][n][1],
                                           j + Offsets(shape)[k][n][2],
                                           "").coords]]]

SetMin(S) == CHOOSE x \in S : \A y \in S : x <= y

SetMax(S) == CHOOSE x \in S : \A y \in S : x >= y

\* Piece.spawn, on the piece p (shape set) and the group g
PieceSpawn(s) ==
    LET b == Place(s.piece.active_shape, 4, 0)[1]
    IN  [s EXCEPT !.piece.coords = <<4, 0>>,
                  !.piece.next_id = b.next_id,
                  !.piece.cells = b.cells,
                  !.pieceGroup = @ \cup Range(b.cells)]

\* Piece.__init__ with a stored shape; r is the shape random.choice stores
PieceNew(s, r) ==
    PieceSpawn([s EXCEPT !.piece = [active_shape |-> s.stored_shape,
                                    coords |-> <<4, 0>>, next_id |-> 1,
                                    cells |-> <<>>, height |-> 19,
                                    lock_switch |-> FALSE],
                         !.stored_shape = r])

\* Piece.calculate_dimensions: (i_min, i_max, j_max) and the new height
PieceCalculateDimensions(s) ==
    IF s.pieceGroup = {}
    THEN \* ValueError: dummy values, height as it was
         [i_min |-> 10, i_max |-> 10, j_max |-> 20, height |-> s.piece.height]
    ELSE
    LET lo == SetMin({c[1] : c \in s.pieceGroup})
        hi == SetMax({c[1] : c \in s.pieceGroup})
        Gap(i) ==
            LET j == SetMax({0} \cup {c[2] : c \in {d \in Range(s.piece.cells) :
                                                    d[1] = i}})
                fall_col == {c[2] : c \in {d \in BagToSet(s.fallen) :
                                           d[1] = i /\ d[2] > j}}
            IN  IF fall_col # {} THEN SetMin(fall_col) - j - 1 ELSE 19 - j
    IN  [i_min |-> lo, i_max |-> hi,
         j_max |-> SetMax({c[2] : c \in s.pieceGroup}),
         height |-> SetMin({Gap(i) : i \in lo..hi})]

\* the piece's Blocks, all of them in the group, shifted by d
PieceShift(s, d) ==
    [s EXCEPT !.piece.coords = Add2(@, d),
              !.piece.cells = [n \in 1..Len(@) |-> Add2(@[n], d)],
              !.pieceGroup = {Add2(c, d) : c \in @}]

PieceMove(s, dir) ==
    LET dm == PieceCalculateDimensions(s)
        d == CONVERT(dir)
        X == {Add2(c, d) : c \in Range(s.piece.cells)}
        s1 == [s EXCEPT !.piece.height = dm.height]
    IN  IF X \cap BagToSet(s.fallen) = {}
           /\ 0 <= dm.i_min + d[1] /\ dm.i_max + d[1] < GridW
           /\ dm.j_max + d[2] < GridH
        THEN PieceShift(s1, d)
        ELSE s1

\* Piece.rotate as a plausible slip: the fallen structure is not looked at
PieceRotateThroughFallen(s) ==
    LET b == Place(s.piece.active_shape, s.piece.coords[1],
                   s.piece.coords[2])[s.piece.next_id]
        X == Range(b.cells)
        Z == {c \in X : ~(0 <= c[1] /\ c[1] < GridW /\ c[2] < GridH)}
    IN  IF Z = {}
        THEN [s EXCEPT !.piece.next_id = b.next_id, !.piece.cells = b.cells,
                       !.pieceGroup = X]
        ELSE s

\* Piece.rotate()
PieceRotate(s) ==
    LET b == Place(s.piece.active_shape, s.piece.coords[1],
                   s.piece.coords[2])[s.piece.next_id]
        X == Range(b.cells)
        Z == {c \in X : ~(0 <= c[1] /\ c[1] < GridW /\ c[2] < GridH)}
    IN  IF X \cap BagToSet(s.fallen) = {} /\ Z = {}
        THEN [s EXCEPT !.piece.next_id = b.next_id, !.piece.cells = b.cells,
                       !.pieceGroup = X]
        ELSE s

PieceFallInst(s) ==
    LET h == PieceCalculateDimensions(s).height
    IN  PieceShift([s EXCEPT !.piece.height = h], <<0, h>>)

PieceSwitch(s) ==
    PieceSpawn([s EXCEPT !.pieceGroup = {},
                         !.stored_shape = s.piece.active_shape,
                         !.piece.active_shape = s.stored_shape,
                         !.piece.height = 19,
                         !.piece.lock_switch = TRUE])

\* FallenBlocks.grow
FallenGrow(s) ==
    LET f == IF Cardinality(s.pieceGroup) = 4
             THEN s.fallen (+) SetToBag(s.pieceGroup)
             ELSE s.fallen
    IN  [s EXCEPT !.fallen = f, !.pieceGroup = {},
                  !.fallenHeight = 20 - SetMin({20} \cup {c[2] : c \in BagToSet(f)})]

\* the number of sprites of the bag f on row b
RowCount(f, b) ==
    BagCardinality([c \in {d \in BagToSet(f) : d[2] = b} |-> f[c]])

\* FallenBlocks.remove_full_lines: the lines found full are removed in
\* ascending order, each lowering the sprites above it by one row
FallenRemoveFullLines(f) ==
    LET full == {b \in 0..(GridH - 1) : RowCount(f, b) = GridW}
        kept == {c \in BagToSet(f) : c[2] \notin full}
        Lowered(c) == <<c[1], c[2] + Cardinality({b \in full : b > c[2]})>>
    IN  [lines |-> Cardinality(full),
         fallen |-> [c \in {Lowered(d) : d \in kept} |->
                       f[CHOOSE d \in kept : Lowered(d) = c]]]

TetrisUpdateScore(s, n, sp, ok) ==
    LET gain == IF n \in 1..4
                THEN ((CASE n = 1 -> 2 [] n = 2 -> 6 [] n = 3 -> 12 [] n = 4 -> 20)
                      + (sp * s.fallenHeight) \div TetrisSpeedDen) * 15
                ELSE 0
        us == GameUpdateScore(s.score + gain, s.highest_score, s.store, ok)
    IN  [s EXCEPT !.score = us.score, !.highest_score = us.highest_score,
                  !.store = us.store]

TetrisSpawnNext(s, r, sp, ok) ==
    LET s1 == FallenGrow(s)
        rm == FallenRemoveFullLines(s1.fallen)
    IN  PieceNew(TetrisUpdateScore([s1 EXCEPT !.fallen = rm.fallen],
                                   rm.lines, sp, ok), r)

TetrisTrySpawnNext(s, r, sp, ok) ==
    IF s.piece.height = 0 THEN TetrisSpawnNext(s, r, sp, ok) ELSE s

TetrisCheckDefeat(s) == s.fallenHeight > 20

\* the fields of the running Tetris that its methods read and write
TetrisState ==
    [piece |-> piece, stored_shape |-> stored_shape, pieceGroup |-> pieceGroup,
     fallen |-> fallen, fallenHeight |-> fallenHeight,
     score |-> score, highest_score |-> highest_score, store |-> store]

TetrisBecomes(s) ==
    /\ piece' = s.piece /\ stored_shape' = s.stored_shape
    /\ pieceGroup' = s.pieceGroup /\ fallen' = s.fallen
    /\ fallenHeight' = s.fallenHeight
    /\ score' = s.score /\ highest_score' = s.highest_score /\ store' = s.store

TetrisIs(s) ==
    /\ piece = s.piece /\ stored_shape = s.stored_shape
    /\ pieceGroup = s.pieceGroup /\ fallen = s.fallen
    /\ fallenHeight = s.fallenHeight
    /\ score = s.score /\ highest_score = s.highest_score /\ store = s.store

\* Tetris.__init__ on emptied groups: the first piece takes the stored shape
\* a and random.choice stores r
TetrisNew(a, r, st) ==
    PieceNew([piece |-> <<>>, stored_shape |-> a, pieceGroup |-> {},
              fallen |-> EmptyBag, fallenHeight |-> 0,
              score |-> 0, highest_score |-> 0, store |-> st], r)

\* Game.reset: Tetris does not override it
TetrisReset ==
    /\ \E r \in TetrisShapes :
       \E s \in {TetrisNew(stored_shape, r, store)} : TetrisBecomes(s)
    /\ speed' = TetrisSpeeds[1]
    /\ paused' = FALSE /\ running' = TRUE /\ screens' = <<>>
    /\ pieceDirection' = pieceDirection

TetrisKeys == {"P", "RETURN", "UP", "DOWN", "LEFT", "RIGHT", "SPACE", "RSHIFT"}

\* handle_events(key, KEYDOWN): the keys act whether or not the game is paused
TetrisKey(key) ==
    /\ game = "Tetris" /\ ~crashed
    /\ events < MaxTetrisEvents /\ events' = events + 1
    /\ IF key = "RETURN" THEN TetrisReset
       ELSE /\ paused' = IF key = "P" THEN ~paused ELSE paused
            /\ speed' = speed /\ running' = running /\ screens' = screens
            /\ IF running /\ key \in {"DOWN", "LEFT", "RIGHT"}
               THEN /\ pieceDirection' = CASE key = "DOWN" -> "down"
                                           [] key = "LEFT" -> "left"
                                           [] key = "RIGHT" -> "right"
                    /\ UNCHANGED <<piece, stored_shape, pieceGroup, fallen,
                                   fallenHeight, score, highest_score, store>>
               ELSE IF running /\ key = "UP"
               THEN /\ \E s \in {PieceRotate(TetrisState)} : TetrisBecomes(s)
                    /\ pieceDirection' = pieceDirection
               ELSE IF running /\ key = "SPACE"
               THEN /\ \E r \in TetrisShapes :
                       \E s1 \in {PieceFallInst(TetrisState)} :
                       \E s2 \in {TetrisTrySpawnNext(s1, r, speed, fileOk)} :
                          TetrisBecomes(s2)
                    /\ pieceDirection' = pieceDirection
               ELSE IF running /\ key = "RSHIFT" /\ ~piece.lock_switch
               THEN /\ \E s \in {PieceSwitch(TetrisState)} : TetrisBecomes(s)
                    /\ pieceDirection' = pieceDirection
               ELSE UNCHANGED <<pieceDirection, stored_shape, piece, pieceGroup,
                                fallen, fallenHeight, score, highest_score,
                                store>>
    /\ UNCHANGED <<asteroidsVars, clientVars, game, crashed, blockVars, snakeVars, breakoutVars, t, tEnd,
                   fileOk, fileKind>>

TetrisKeyDown == \E key \in TetrisKeys : TetrisKey(key)

TetrisKeyUp ==
    /\ game = "Tetris" /\ ~crashed /\ running
    /\ events < MaxTetrisEvents /\ events' = events + 1
    /\ pieceDirection' = ""
    /\ UNCHANGED <<asteroidsVars, clientVars, game, crashed, blockVars, snakeVars, breakoutVars, engineVars,
                   stored_shape, piece, pieceGroup, fallen, fallenHeight>>

\* one frame of Brickgame.loop: manage(t), then update_entities(t=t); no
\* Block of Tetris has a direction, so update_entities moves nothing.
\* r1 and r2 are the shapes random.choice stores if a piece is spawned
TetrisFrame ==
    /\ game = "Tetris" /\ ~crashed /\ t < tEnd
    /\ t' = t + 1
    /\ \E r1 \in TetrisShapes, r2 \in TetrisShapes :
       LET act == running /\ ~paused
           Fall(v) == TetrisTrySpawnNext(Run(LAMBDA u : PieceMove(u, "down"), v),
                                         r1, speed, fileOk)
       IN
       \E s1 \in {IF act /\ t' % FallPeriod(speed) = 0
                  THEN Run(Fall, TetrisState) ELSE TetrisState} :
       \E sp \in {IF act /\ speed <= 10 * TetrisSpeedDen /\ t' % (30 * FPS) = 0
                  THEN TetrisScale(speed) ELSE speed} :
       \E s2 \in {IF act /\ t' % SidePeriod(sp) = 0
                  THEN PieceMove(s1, pieceDirection) ELSE s1} :
       \E s3 \in {IF act /\ t' % SidePeriod(sp) = 0
                  THEN TetrisTrySpawnNext(s2, r2, sp, fileOk) ELSE s2} :
       \E gm \in {GameManage(running, paused, FALSE, TetrisCheckDefeat(s3),
                             screens)} :
           /\ speed' = sp
           /\ TetrisBecomes(IF gm.cleared
                            THEN [s3 EXCEPT !.pieceGroup = {}, !.fallen = EmptyBag]
                            ELSE s3)
           /\ running' = gm.running
           /\ screens' = gm.screens
    /\ UNCHANGED <<asteroidsVars, clientVars, game, crashed, blockVars, snakeVars, breakoutVars, tEnd, paused,
                   fileOk, fileKind, pieceDirection, events>>

\* the values of Tetris's variables while another program runs
TetrisIdle ==
    /\ pieceDirection = "" /\ stored_shape = "" /\ piece = <<>>
    /\ pieceGroup = {} /\ fallen = EmptyBag /\ fallenHeight = 0
    /\ events = 0

(***************************************************************************)
(* games/asteroids.py: Asteroids.  The asteroids are the targets of the    *)
(* bombs; game_ticks only sets the odds of the random draws, which are     *)
(* choices here, and is left out.                                          *)
(***************************************************************************)
\* Asteroids.asteroids_speed, set in __init__
AsteroidsSpeed == 2

\* Asteroids.shooter_speed
ShooterSpeed == 10

\* Asteroids.check_hit: groupcollide(asteroids, bullet, True, True)
AsteroidsCheckHit(ast, bul) ==
    [collisions |-> ast \cap bul, asteroids |-> ast \ bul, bullets |-> bul \ ast]

\* Asteroids.move_asteroids, cols the columns random.choices has drawn
AsteroidsMoveAsteroids(ast, cols) ==
    {BlockSetPosition([coords |-> c], c[1], c[2] + 1).coords : c \in ast}
        \cup {BlockNew(i, 0, "").coords : i \in cols}

\* Asteroids.check_defeat, sh the coords of the Block of entities["shooter"]
AsteroidsCheckDefeat(ast, sh) ==
    \/ sh \in ast
    \/ \E c \in ast : c[2] >= 20

\* Shooter.move()
ShooterMove(sh, d) ==
    IF 0 <= sh[1] + CONVERT(d)[1] /\ sh[1] + CONVERT(d)[1] < GridW
    THEN BlockSetPosition([coords |-> sh], sh[1] + CONVERT(d)[1], sh[2]).coords
    ELSE sh

\* Bullet.update of every Bullet of entities["bullet"]: a Bullet above the
\* grid is killed, the others move at the rate FPS
BulletUpdate(bul, tt) ==
    {BlockUpdate(BlockNew(c[1], c[2], "up"), tt, FPS * SpeedDen).coords :
        c \in {b \in bul : ~(b[2] < 0)}}

\* Bomb(-5, -5), without a group
BombDummy == [cells |-> BombCells(-5, -5), drawn |-> FALSE]

\* Asteroids.try_spawn_bomb: the spawn rate at game tick gt, in units of
\* 1/6000.  "t % 60*FPS" is (t % 60)*FPS
AsteroidsSpawnRate(gt) ==
    2 + (IF gt <= 180 * FPS /\ (gt % 60) * FPS = 0 THEN 1 ELSE 0)

\* the game is played from its construction on, with K_SPACE up
ClientIdle == environment = "game" /\ playing = "" /\ held = FALSE

AsteroidsIdle ==
    /\ shooter = <<0, 0>> /\ shooterDirection = "" /\ bulletGroup = {}
    /\ game_ticks = 0

(***************************************************************************)
(* SpecBlock: one Block, driven by arbitrary calls of its methods.         *)
(***************************************************************************)
\* speeds passed to update, as speed * SpeedDen: 0, 1/8, 1, 2, 10, 20, FPS, 80
BlockSpeeds == {0, 1, 8, 16, 80, 160, FPS * SpeedDen, 640}

BlockCoordRange == (-MaxCoord)..MaxCoord

NoCall == [op |-> "none"]

\* the values of the variables of the programs that do not run
BombIdle == bombs = <<>> /\ targets = {}

BlockIdle == call = NoCall /\ blk = BlockNew(0, 0, "") /\ BombIdle

EngineIdle ==
    /\ t = 0 /\ tEnd = 0 /\ score = 0 /\ highest_score = 0 /\ speed = SpeedDen
    /\ paused = FALSE /\ running = TRUE /\ screens = <<>> /\ store = 0
    /\ fileOk = TRUE /\ fileKind = "json"

SnakeIdle ==
    /\ segments = <<>> /\ bodyGroup = <<>> /\ food = <<0, 0>> /\ foodGroup = {}
    /\ foodOn = TRUE /\ direction = "down" /\ growing = FALSE
    /\ key_enabled = FALSE

BlockInit ==
    /\ game = "Block"
    /\ crashed = FALSE
    /\ call = NoCall
    /\ \E d \in Dirs \cup {""} : blk = BlockNew(0, 0, d)
    /\ BombIdle /\ EngineIdle /\ SnakeIdle /\ BreakoutIdle /\ TetrisIdle
    /\ AsteroidsIdle /\ ClientIdle

BlkUpdate ==
    /\ game = "Block" /\ ~crashed
    /\ \E tt \in 0..MaxBlockTick, sp \in BlockSpeeds :
        /\ BlockUpdate(blk, tt, sp).coords[1] \in BlockCoordRange
        /\ BlockUpdate(blk, tt, sp).coords[2] \in BlockCoordRange
        /\ blk' = BlockUpdate(blk, tt, sp)
        /\ crashed' = BlockUpdateRaises(blk, tt, sp)
        /\ call' = [op |-> "update", t |-> tt, speed |-> sp]
    /\ UNCHANGED <<asteroidsVars, clientVars, game, bombVars, engineVars, snakeVars, breakoutVars,
                   tetrisVars>>

BlkSetDirection ==
    /\ game = "Block" /\ ~crashed
    /\ \E d \in Dirs \cup {""} :
        /\ blk' = BlockSetDirection(blk, d)
        /\ call' = [op |-> "set_direction", direction |-> d]
    /\ UNCHANGED <<asteroidsVars, clientVars, game, crashed, bombVars, engineVars, snakeVars,
                   breakoutVars, tetrisVars>>

BlkSetPosition ==
    /\ game = "Block" /\ ~crashed
    /\ \E i \in BlockCoordRange, j \in BlockCoordRange :
        /\ blk' = BlockSetPosition(blk, i, j)
        /\ call' = [op |-> "set_position", i |-> i, j |-> j]
    /\ UNCHANGED <<asteroidsVars, clientVars, game, crashed, bombVars, engineVars, snakeVars,
                   breakoutVars, tetrisVars>>

BlockNext == BlkUpdate \/ BlkSetDirection \/ BlkSetPosition

SpecBlock == BlockInit /\ [][BlockNext]_vars

(***************************************************************************)
(* SpecSnake: Snake played through Brickgame: key events between frames.   *)
(* A behaviour starts at the construction of the game, entered at timer    *)
(* value 0 or 29 (the game is entered from the selector, whose timer       *)
(* runs), or late in a game: the snake, 199 cells long, follows the closed *)
(* tour Tour of the grid with the food on the one free cell ahead of it.   *)
(***************************************************************************)
\* A closed tour of the 200 cells: row 0 rightwards, rows 1..18 back and forth
\* over the columns 1..9, row 19 leftwards, column 0 upwards.
Tour(k) ==
    IF k < 10 THEN <<k, 0>>
    ELSE IF k < 172
         THEN LET r == 1 + ((k - 10) \div 9)
                  m == (k - 10) % 9
              IN  IF r % 2 = 1 THEN <<9 - m, r>> ELSE <<1 + m, r>>
    ELSE IF k < 182 THEN <<9 - (k - 172), 19>>
    ELSE <<0, 18 - (k - 182)>>

\* the snake of n cells on the tour with its head on Tour(h)
TourBody(h, n) == [k \in 1..n |-> Tour((h - (k - 1) + 200) % 200)]

\* the score of a game that has grown the snake to 199 cells
LateScore == 30955

SnakeLate ==
    [SnakeNew(Tour(6)) EXCEPT !.segments = TourBody(5, 199),
                               !.bodyGroup = TourBody(5, 199),
                               !.key_enabled = TRUE,
                               !.score = LateScore,
                               !.highest_score = LateScore]

StartTicks == {0, 29}

SnakeInit ==
    /\ game = "Snake"
    /\ crashed = FALSE
    /\ BlockIdle /\ BreakoutIdle /\ TetrisIdle
    /\ AsteroidsIdle /\ ClientIdle
    /\ \E s \in StartTicks : t = s /\ tEnd = s + MaxFrames
    /\ fileOk \in BOOLEAN /\ fileKind = (IF fileOk THEN "json" ELSE "locked")
    /\ growing = FALSE
    /\ \/ /\ \E f \in FoodCells : SnakeIs(SnakeNew(f))
          /\ direction = "down"
          /\ store = 0
       \/ /\ SnakeIs(SnakeLate)
          /\ direction = "right"
          /\ store = IF fileOk THEN LateScore ELSE 0

SnakeNext == SnakeKeyDown \/ SnakeKeyUp \/ SnakeFrame

SpecSnake == SnakeInit /\ [][SnakeNext]_vars

(***************************************************************************)
(* SpecBreakout: a game of Breakout from its construction, under every     *)
(* interleaving of frames and key events.                                  *)
(***************************************************************************)
\* Games in progress, with the space key held since the launch at tick 1
\* from (4, 18).  In the first the ball has reached the right border on
\* its way up, three rows below the brick (6, 9).  In the second it broke (6, 9),
\* bounced off the left border and comes down to the right; in the third
\* the paddle then caught it in its left half, carried it to the left
\* border and sent it up again, it broke (7, 9), bounced off the right
\* border and comes down to the left.  In the fourth the paddle caught it,
\* sent it up to the right, it broke (9, 9) and comes down to the left, on
\* its way to (1, 18).  In the fifth the player has cleared level 1 but
\* the brick (9, 7), at frame 570 of a longer game, and the ball is on its
\* way up to it.  In the sixth the player has cleared levels 1 and 2 and 15
\* bricks of level 3, at frame 2027 of another game, and the ball has come
\* up to the right border.  In the seventh the player has cleared
\* levels 1 and 2 and all of level 3 but the brick (9, 0), and the ball is
\* on its way up to it.  Meanwhile the player has steered the paddle to any
\* column.
BreakoutFlights ==
    { [ticks |-> 6, level |-> 1, left |-> Sketch(1),
       score |-> 0, coords |-> <<9, 13>>, velocity |-> <<1, -1>>],
      [ticks |-> 16, level |-> 1, left |-> Sketch(1) \ {<<6, 9>>},
       score |-> 15, coords |-> <<1, 17>>, velocity |-> <<1, 1>>],
      [ticks |-> 33, level |-> 1, left |-> Sketch(1) \ {<<6, 9>>, <<7, 9>>},
       score |-> 30, coords |-> <<4, 17>>, velocity |-> <<-1, 1>>],
      [ticks |-> 30, level |-> 1, left |-> Sketch(1) \ {<<6, 9>>, <<9, 9>>},
       score |-> 30, coords |-> <<5, 14>>, velocity |-> <<-1, 1>>],
      [ticks |-> 570, level |-> 1, left |-> {<<9, 7>>},
       score |-> 765, coords |-> <<6, 9>>, velocity |-> <<1, -1>>],
      [ticks |-> 2027, level |-> 3,
       left |-> Sketch(3) \ {
                       <<9, 3>>, <<1, 4>>, <<8, 4>>, <<9, 4>>, <<0, 5>>, <<9, 5>>,
                       <<0, 6>>, <<1, 6>>, <<2, 6>>, <<3, 6>>, <<4, 6>>, <<5, 6>>,
                       <<6, 6>>, <<7, 6>>, <<8, 6>>},
       score |-> 16990, coords |-> <<9, 4>>, velocity |-> <<1, -1>>],
      [ticks |-> 2609, level |-> 3, left |-> {<<9, 0>>},
       score |-> 18070, coords |-> <<5, 3>>, velocity |-> <<1, -1>>] }

\* the game in the flight f with the paddle's leftmost cell in column p
BreakoutInFlight(f, p, ok) ==
    LET s == BreakoutNew(FALSE, 0)
    IN  [s EXCEPT !.level = f.level,
                  !.targetBlock = f.left,
                  !.targetGroup = f.left,
                  !.total = Cardinality(Sketch(f.level)),
                  !.number = Cardinality(f.left),
                  !.score = f.score, !.highest_score = f.score,
                  !.store = IF ok THEN f.score ELSE 0,
                  !.ball = [coords |-> f.coords, dir |-> "NE",
                            disp |-> Displacement(f.velocity),
                            velocity |-> f.velocity],
                  !.paddle = [cell |-> [k \in 1..3 |-> <<p + k - 1, 19>>],
                              blocks |-> <<1, 2, 3>>,
                              coords |-> [k \in 1..3 |-> <<p + k - 1, 19>>]],
                  !.paddleGroup = {1, 2, 3}]

BreakoutIs(s) ==
    /\ level = s.level /\ number = s.number /\ total = s.total
    /\ targetBlock = s.targetBlock /\ targetGroup = s.targetGroup
    /\ ball = s.ball /\ ballGroup = s.ballGroup
    /\ paddle = s.paddle /\ paddleGroup = s.paddleGroup
    /\ dragging = s.dragging
    /\ score = s.score /\ highest_score = s.highest_score
    /\ store = s.store

BreakoutInit ==
    /\ game = "Breakout"
    /\ crashed = FALSE
    /\ BlockIdle /\ SnakeIdle /\ TetrisIdle
    /\ AsteroidsIdle /\ ClientIdle
    /\ fileOk \in BOOLEAN /\ fileKind = (IF fileOk THEN "json" ELSE "locked")
    /\ paused = FALSE /\ running = TRUE /\ screens = <<>>
    /\ \/ /\ t = 0 /\ tEnd = MaxBreakoutFrames
          /\ speed = BreakoutStartSpeed * SpeedDen
          /\ paddleDirection = ""
          /\ \E s \in {BreakoutNew(FALSE, 0)} : BreakoutIs(s)
       \/ \E f \in BreakoutFlights, p \in 0..(GridW - 3) :
             /\ t = f.ticks /\ tEnd = f.ticks + MaxBreakoutFrames
             /\ speed = BreakoutStartSpeed * SpeedDen * 2
             /\ paddleDirection \in {"", "left", "right"}
             /\ \E s \in {BreakoutInFlight(f, p, fileOk)} : BreakoutIs(s)

BreakoutNext == BreakoutKeyDown \/ BreakoutKeyUp \/ BreakoutFrame

SpecBreakout == BreakoutInit /\ [][BreakoutNext]_vars

(***************************************************************************)
(* SpecTetris: a game of Tetris from its construction at a tick of the     *)
(* client's timer, under every interleaving of frames and key events.      *)
(***************************************************************************)
\* the client's timer when the game is constructed: the first frame after it
\* is a fall tick (62), the fifth is a side tick (66)
TetrisStartTicks == {61}

\* a stack a game reaches by play, at frame 541: columns 0 and 9 stand up to
\* row 1 and column 4 up to row 4, two I's lie on row 0 (columns 0..3 and
\* 6..9), a vertical I stands in column 4 on rows 0..3, and the next I has
\* spawned over (3, 0), (4, 0) and (6, 0)
TetrisStack ==
    {<<0, j>> : j \in 1..19} \cup {<<9, j>> : j \in 1..19}
      \cup {<<4, j>> : j \in 0..19} \cup {<<1, 19>>, <<8, 19>>}
      \cup {<<i, 0>> : i \in (0..3) \cup (6..9)}

TetrisStackTick == 541

TetrisStacked(r, st) ==
    PieceNew([piece |-> <<>>, stored_shape |-> "I", pieceGroup |-> {},
              fallen |-> SetToBag(TetrisStack), fallenHeight |-> 20,
              score |-> 0, highest_score |-> 0, store |-> st], r)

\* a game at frame 90 in which UP, then RIGHT were pressed before frame 62:
\* the first piece, rotated once, fell one row in frame 62 and went right in
\* frames 66, 72, 78, 84 and 90, to the border
TetrisBorderTick == 90

TetrisAtBorder(a, r, st) ==
    LET Right(s) == PieceMove(s, "right")
    IN  Right(Right(Right(Right(Right(
            PieceMove(PieceRotate(TetrisNew(a, r, st)), "down"))))))

\* a game at frame 39059, one frame before the 21st multiple of 30 * FPS:
\* P was pressed before frame 62, and the game was unpaused for the frame
\* of each multiple of 30 * FPS only; the speed has been scaled 20 times,
\* the first piece, a T, has fallen in 6 of these frames, the last of them
\* a side tick too, and P was pressed again
TetrisScaleTick == 39059

TetrisScaled(r, st) ==
    LET Down(s) == PieceMove(s, "down")
    IN  PieceMove(Down(Down(Down(Down(Down(Down(TetrisNew("T", r, st))))))), "")

\* a game at frame 367, played with the keys held: two I's lie on row 19
\* (columns 0..3 and 4..7), and the third piece, an O, went right to the
\* border and down to the rows 18 and 19, with K_DOWN still held
TetrisClearTick == 367

TetrisClearing(r, st) ==
    LET Right(s) == PieceMove(s, "right")
        Down(s) == PieceMove(s, "down")
        Right4(s) == Run(Right, Run(Right, Run(Right, Run(Right, s))))
        Down6(s) == Run(Down, Run(Down, Run(Down, Run(Down, Run(Down,
                    Run(Down, s))))))
    IN  Run(Down6, Run(Down6, Run(Down6, Run(Right4,
            PieceNew([piece |-> <<>>, stored_shape |-> "O", pieceGroup |-> {},
                      fallen |-> SetToBag({<<i, 19>> : i \in 0..7}),
                      fallenHeight |-> 1,
                      score |-> 0, highest_score |-> 0, store |-> st],
                     r)))))

TetrisInit ==
    /\ game = "Tetris"
    /\ crashed = FALSE
    /\ BlockIdle /\ SnakeIdle /\ BreakoutIdle
    /\ AsteroidsIdle /\ ClientIdle
    /\ fileOk \in BOOLEAN /\ fileKind = (IF fileOk THEN "json" ELSE "locked")
    /\ paused = FALSE /\ running = TRUE /\ screens = <<>>
    /\ events = 0
    /\ \/ /\ \E s \in TetrisStartTicks : t = s /\ tEnd = s + MaxTetrisFrames
          /\ pieceDirection = ""
          /\ \E a \in TetrisShapes, r \in TetrisShapes :
             \E s \in {TetrisNew(a, r, 0)} : TetrisIs(s)
       \/ /\ t = TetrisStackTick /\ tEnd = TetrisStackTick + MaxTetrisFrames
          /\ pieceDirection = ""
          /\ \E r \in TetrisShapes :
             \E s \in {TetrisStacked(r, 0)} : TetrisIs(s)
       \/ /\ t = TetrisBorderTick /\ tEnd = TetrisBorderTick + MaxTetrisFrames
          /\ pieceDirection = "right"
          /\ \E a \in TetrisShapes, r \in TetrisShapes :
             \E s \in {TetrisAtBorder(a, r, 0)} : TetrisIs(s)
       \/ /\ t = TetrisScaleTick /\ tEnd = TetrisScaleTick + MaxTetrisFrames
          /\ pieceDirection = ""
          /\ \E s \in {TetrisScaled("O", 0)} : TetrisIs(s)
       \/ /\ t = TetrisClearTick /\ tEnd = TetrisClearTick + MaxTetrisFrames
          /\ pieceDirection = "down"
          /\ \E s \in {TetrisClearing("T", 0)} : TetrisIs(s)
    /\ speed = IF t = TetrisScaleTick THEN TetrisSpeeds[21] ELSE TetrisSpeeds[1]

TetrisNext == TetrisKeyDown \/ TetrisKeyUp \/ TetrisFrame

SpecTetris == TetrisInit /\ [][TetrisNext]_vars

(***************************************************************************)
(* SpecCheckHit: Target.check_hit called on a ball next to any arrangement *)
(* of bricks.                                                              *)
(***************************************************************************)
\* the cells where the ball is when check_hit is called
CheckHitCells == {<<5, 1>>, <<0, 0>>, <<9, 4>>, <<3, 10>>}

\* the eight cells around the cell c that lie in the grid
Around(c) ==
    {e \in {<<c[1] + x, c[2] + y>> : x \in -1..1, y \in -1..1} :
        e # c /\ InGrid(e)}

\* a level-1 game whose remaining bricks are K, the launched ball at c with
\* velocity w
BreakoutAtHit(c, w, K) ==
    LET s == BreakoutNew(FALSE, 0)
    IN  [s EXCEPT !.targetBlock = K, !.targetGroup = K,
                  !.number = Cardinality(K),
                  !.ball = [coords |-> c, dir |-> "NE",
                            disp |-> Displacement(w), velocity |-> w],
                  !.paddle.blocks = <<1, 2, 3>>,
                  !.paddle.coords = Pop(@),
                  !.paddleGroup = {1, 2, 3}]

CheckHitInit ==
    /\ game = "CheckHit"
    /\ crashed = FALSE
    /\ BlockIdle /\ EngineIdle /\ SnakeIdle /\ TetrisIdle
    /\ AsteroidsIdle /\ ClientIdle
    /\ paddleDirection = ""
    /\ \E c \in CheckHitCells, w \in {-1, 1} \X {-1, 1} :
       \E K \in SUBSET Around(c) :
       \E s \in {BreakoutAtHit(c, w, K)} : BreakoutIs(s)

\* self.target.check_hit(self.ball)
CheckHit ==
    /\ game = "CheckHit" /\ ~crashed
    /\ \E s \in {TargetCheckHit(BreakoutState)} :
          /\ BreakoutBecomes(s)
          /\ crashed' = s.raised
    /\ UNCHANGED <<asteroidsVars, clientVars, game, blockVars, engineVars, snakeVars, tetrisVars,
                   paddleDirection>>

CheckHitNext == CheckHit

SpecCheckHit == CheckHitInit /\ [][CheckHitNext]_vars

(***************************************************************************)
(* SpecBomb: the registry of Bomb and a group of targets, under arbitrary  *)
(* calls of Bomb's methods and the emptying of the groups when a game ends *)
(* or is reset.                                                            *)
(***************************************************************************)
\* where charges are constructed: the test client's row and the bottom row
BombSpawns == {<<4, 10>>, <<4, 19>>}

\* the columns the first Block of a charge is moved to
BombColumns == 4..5

\* the cells of the target group at the start
BombTargetCells == {<<2, 8>>, <<1, 8>>, <<9, 15>>, <<9, 16>>, <<5, 5>>}

BombState == [bombs |-> bombs, targets |-> targets]

BombBecomes(st) == bombs' = st.bombs /\ targets' = st.targets

BombInit ==
    /\ game = "Bomb"
    /\ crashed = FALSE
    /\ call = NoCall /\ blk = BlockNew(0, 0, "")
    /\ bombs = <<>> /\ targets = BombTargetCells
    /\ EngineIdle /\ SnakeIdle /\ BreakoutIdle /\ TetrisIdle
    /\ AsteroidsIdle /\ ClientIdle

BmbNew ==
    /\ game = "Bomb" /\ ~crashed /\ Len(bombs) < MaxBombs
    /\ \E c \in BombSpawns :
          /\ BombBecomes(BombNew(BombState, c[1], c[2]))
          /\ call' = [op |-> "Bomb", i |-> c[1], j |-> c[2]]
    /\ UNCHANGED <<asteroidsVars, clientVars, game, crashed, blk, engineVars, snakeVars, breakoutVars,
                   tetrisVars>>

BmbMove ==
    /\ game = "Bomb" /\ ~crashed
    /\ \E d \in Dirs :
       \E st \in {BombMove(BombState, d)} :
          /\ \A k \in 1..Len(st.bombs) : st.bombs[k].cells[1][1] \in BombColumns
          /\ BombBecomes(st)
          /\ call' = [op |-> "move", direction |-> d]
    /\ UNCHANGED <<asteroidsVars, clientVars, game, crashed, blk, engineVars, snakeVars, breakoutVars,
                   tetrisVars>>

BmbCheckExplosion ==
    /\ game = "Bomb" /\ ~crashed
    /\ \E st \in {BombCheckExplosion(BombState)} :
          /\ BombBecomes(st)
          \* _erase is set where explode is called, which removes one charge
          /\ call' = [op |-> "check_explosion",
                      returned |-> Len(st.bombs) < Len(bombs)]
    /\ UNCHANGED <<asteroidsVars, clientVars, game, crashed, blk, engineVars, snakeVars, breakoutVars,
                   tetrisVars>>

\* explode(target_group, index): Bomb._bombs[index] raises IndexError when
\* the index is out of range
BmbExplode ==
    /\ game = "Bomb" /\ ~crashed
    /\ \E x \in (-1)..(MaxBombs - 1) :
          /\ IF Place0(bombs, x) = 0
             THEN crashed' = TRUE /\ UNCHANGED bombVars
             ELSE /\ crashed' = FALSE
                  /\ BombBecomes(BombExplode(BombState, Place0(bombs, x)))
          /\ call' = [op |-> "explode", index |-> x]
    /\ UNCHANGED <<asteroidsVars, clientVars, game, blk, engineVars, snakeVars, breakoutVars, tetrisVars>>

\* Game.reset, toggle_victory or toggle_defeat of the game that holds the groups
BmbTeardown ==
    /\ game = "Bomb" /\ ~crashed
    /\ BombBecomes(BombGroupsEmptied(BombState))
    /\ call' = [op |-> "teardown"]
    /\ UNCHANGED <<asteroidsVars, clientVars, game, crashed, blk, engineVars, snakeVars, breakoutVars,
                   tetrisVars>>

BombNext == BmbNew \/ BmbMove \/ BmbCheckExplosion \/ BmbExplode \/ BmbTeardown

SpecBomb == BombInit /\ [][BombNext]_vars

(***************************************************************************)
(* SpecScore: the scoring of a game, score += gain followed by             *)
(* Game.update_score(), called once a frame on any score, remembered high  *)
(* score and state of high-scores.json.                                    *)
(***************************************************************************)
\* frames in one behaviour of SpecScore
MaxScoreCalls == 2

\* the points a frame adds to the score
ScoreGains == {0, 5}

ScoreInit ==
    /\ game = "Score"
    /\ crashed = FALSE
    /\ BlockIdle /\ SnakeIdle /\ BreakoutIdle /\ TetrisIdle
    /\ AsteroidsIdle /\ ClientIdle
    /\ t = 0 /\ tEnd = MaxScoreCalls /\ speed = SpeedDen
    /\ paused = FALSE /\ running = TRUE /\ screens = <<>>
    /\ score \in {0, 5, MaxScore - 5, MaxScore - 1}
    /\ highest_score \in {0, 7, MaxScore - 5}
    /\ store \in {0, 7, MaxScore - 5}
    /\ fileKind \in FileKinds /\ fileOk = (fileKind = "json")

\* update_score(...) of a game: self.score += gain; super().update_score()
ScrUpdateScore ==
    /\ game = "Score" /\ ~crashed /\ t < tEnd
    /\ t' = t + 1
    /\ \E gain \in ScoreGains :
       \E r \in {GameUpdateScoreOnFile(score + gain, highest_score, store,
                                       fileKind)} :
          /\ score' = r.score /\ highest_score' = r.highest_score
          /\ store' = r.store
          /\ fileKind' = r.kind /\ fileOk' = (r.kind = "json")
          /\ call' = [op |-> "update_score", gain |-> gain,
                      opened |-> r.opened, written |-> r.written]
    /\ UNCHANGED <<asteroidsVars, clientVars, game, crashed, blk, bombVars, tEnd, speed, paused, running,
                   screens, snakeVars, breakoutVars, tetrisVars>>

ScoreNext == ScrUpdateScore

SpecScore == ScoreInit /\ [][ScoreNext]_vars

(***************************************************************************)
(* SpecAsteroids: Asteroids played through Brickgame, under every          *)
(* interleaving of frames and key events.  A behaviour starts at the       *)
(* construction of the game, or late in a game: the shooter has stayed in  *)
(* column 4, the dummy Bomb has left the registry, and an asteroid that    *)
(* came in column 0 at tick 31 is on row 18 after the frames of the ticks  *)
(* 589 and 613 and on row 19 after the frame of tick 644; at tick 589      *)
(* another asteroid has come in column 4.  In one more game, at tick 613,  *)
(* the shooter has gone right at tick 612, after its shot, and stands in   *)
(* column 5 under an asteroid that came there at tick 93 and is on row 16. *)
(***************************************************************************)
\* frames played from the construction of the game
MaxAsteroidsFrames == 8

\* the ticks of the scenes: an asteroid has come, and 7 frames before the
\* asteroids move
AsteroidsSceneTicks == {589, 613, 644}

\* the tick of the scene with the shooter under an asteroid
AsteroidsUnderTick == 613

\* frames played from a scene
MaxSceneFrames == 8

\* the columns random.choices draws asteroids in
AsteroidsSpawnColumns == {0, 4}

\* the columns random.randint(0, 6) draws for a Bomb
AsteroidsBombColumns == {0, 3}

AsteroidsInit ==
    /\ game = "Asteroids"
    /\ crashed = FALSE
    /\ call = NoCall /\ blk = BlockNew(0, 0, "")
    /\ SnakeIdle /\ BreakoutIdle /\ TetrisIdle /\ ClientIdle
    /\ fileOk = TRUE /\ fileKind = "json" /\ store = 0
    /\ score = 0 /\ highest_score = 0 /\ speed = AsteroidsSpeed * SpeedDen
    /\ paused = FALSE /\ running = TRUE /\ screens = <<>>
    /\ shooterDirection = ""
    /\ \/ /\ t = 0 /\ tEnd = MaxAsteroidsFrames
          /\ shooter = BlockNew(4, 19, "").coords
          /\ targets = {} /\ bulletGroup = {}
          /\ bombs = <<BombDummy>>
       \/ /\ t \in AsteroidsSceneTicks /\ tEnd = t + MaxSceneFrames
          /\ \E under \in (IF t = AsteroidsUnderTick THEN BOOLEAN
                           ELSE {FALSE}) :
                /\ shooter = (IF under THEN ShooterMove(<<4, 19>>, "right")
                              ELSE <<4, 19>>)
                /\ targets = {<<0, t \div 31 - 1>>}
                                \cup (IF t % 31 = 0 THEN {<<4, 0>>} ELSE {})
                                \cup (IF under THEN {<<5, 16>>} ELSE {})
          \* the Bullets shot at the ticks 6k: 19 - (t - 6k + 1) >= -1
          /\ bulletGroup = {<<4, 19 - (t - 6 * k + 1)>> : k \in 95..107}
                               \cap ({4} \X (-1..18))
          /\ bombs = <<>>
    \* no frame of the game has been paused
    /\ game_ticks = t

\* Game.reset: the groups are emptied, Asteroids.__init__ runs again and
\* registers another dummy Bomb; Shooter.direction is a class attribute
AsteroidsReset ==
    /\ Len(bombs) < MaxBombs
    /\ bombs' = Append(BombGroupsEmptied(BombState).bombs, BombDummy)
    /\ targets' = {} /\ bulletGroup' = {}
    /\ shooter' = BlockNew(4, 19, "").coords /\ game_ticks' = 0
    /\ score' = 0 /\ highest_score' = 0 /\ speed' = AsteroidsSpeed * SpeedDen
    /\ paused' = FALSE /\ running' = TRUE /\ screens' = <<>>
    /\ UNCHANGED shooterDirection

AsteroidsKeys == {"P", "RETURN", "LEFT", "RIGHT"}

\* handle_events(key, KEYDOWN)
AsteroidsKey(key) ==
    /\ game = "Asteroids" /\ ~crashed
    /\ call' = [op |-> "handle_events", key |-> key, state |-> "KEYDOWN"]
    /\ IF key = "RETURN" THEN AsteroidsReset
       ELSE /\ paused' = IF key = "P" THEN ~paused ELSE paused
            /\ shooterDirection' = IF running /\ key = "LEFT" THEN "left"
                                   ELSE IF running /\ key = "RIGHT" THEN "right"
                                   ELSE shooterDirection
            /\ UNCHANGED <<bombVars, bulletGroup, shooter, game_ticks, score,
                           highest_score, speed, running, screens>>
    /\ UNCHANGED <<clientVars, game, crashed, blk, t, tEnd, store, fileOk, fileKind,
                   snakeVars, breakoutVars, tetrisVars>>

AsteroidsKeyDown == \E key \in AsteroidsKeys : AsteroidsKey(key)

\* handle_events(key, KEYUP) for K_LEFT and K_RIGHT
AsteroidsKeyUp ==
    /\ game = "Asteroids" /\ ~crashed /\ running
    /\ \E key \in {"LEFT", "RIGHT"} :
          call' = [op |-> "handle_events", key |-> key, state |-> "KEYUP"]
    /\ shooterDirection' = ""
    /\ UNCHANGED <<clientVars, game, crashed, blk, bombVars, engineVars, snakeVars,
                   breakoutVars, tetrisVars, shooter, bulletGroup, game_ticks>>

\* one frame of Brickgame.loop: manage(t), then update_entities(t=t).  The
\* call records what manage counted: collisions, the asteroids check_hit
\* has destroyed, blasted, those check_explosion has destroyed, sampled,
\* the calls of try_spawn_bomb, and spawn_rate, the rate of its draw.
AsteroidsFrame ==
    /\ game = "Asteroids" /\ ~crashed /\ t < tEnd
    /\ t' = t + 1
    /\ IF running /\ ~paused
       THEN
         \E cols \in SUBSET AsteroidsSpawnColumns :
         \E spawn \in {<<>>} \cup {<<i>> : i \in AsteroidsBombColumns} :
         LET astTick == t' % Period(AsteroidsSpeed * SpeedDen) = 0
             shTick == t' % Period(ShooterSpeed * SpeedDen) = 0
         IN
         /\ astTick \/ cols = {}
         /\ shTick \/ spawn = <<>>
         /\ \E ch \in {AsteroidsCheckHit(targets, bulletGroup)} :
            \E us \in {GameUpdateScore(score + 5 * Cardinality(ch.collisions),
                                       highest_score, store, fileOk)} :
            \E moved \in {IF astTick
                          THEN AsteroidsMoveAsteroids(ch.asteroids, cols)
                          ELSE ch.asteroids} :
            \E st2 \in {IF astTick
                        THEN BombCheckExplosion(
                                 BombMove([bombs |-> bombs, targets |-> moved],
                                          "up"))
                        ELSE [bombs |-> bombs, targets |-> moved]} :
            \* shooter.shoot(), shooter.move(), try_spawn_bomb
            \E bul2 \in {IF shTick THEN ch.bullets \cup {shooter}
                         ELSE ch.bullets} :
            \E sh2 \in {IF shTick THEN ShooterMove(shooter, shooterDirection)
                        ELSE shooter} :
            \E st3 \in {IF shTick /\ spawn # <<>>
                        THEN BombNew(st2, spawn[1], 19) ELSE st2} :
            \E gm \in {GameManage(running, paused, FALSE,
                                  AsteroidsCheckDefeat(st3.targets, sh2),
                                  screens)} :
               /\ spawn = <<>> \/ Len(st2.bombs) < MaxBombs
               /\ BombBecomes(IF gm.cleared THEN BombGroupsEmptied(st3) ELSE st3)
               /\ bulletGroup' = BulletUpdate(IF gm.cleared THEN {} ELSE bul2, t')
               /\ shooter' = sh2 /\ game_ticks' = game_ticks + 1
               /\ score' = us.score /\ highest_score' = us.highest_score
               /\ store' = us.store
               /\ running' = gm.running /\ screens' = gm.screens
               /\ call' = [op |-> "manage",
                           collisions |-> Cardinality(ch.collisions),
                           blasted |-> Cardinality(moved)
                                          - Cardinality(st2.targets),
                           sampled |-> IF shTick THEN 1 ELSE 0,
                           spawn_rate |-> IF shTick
                                          THEN AsteroidsSpawnRate(game_ticks')
                                          ELSE 0]
       ELSE /\ bulletGroup' = IF paused THEN bulletGroup
                              ELSE BulletUpdate(bulletGroup, t')
            /\ call' = [op |-> "manage", collisions |-> 0, blasted |-> 0,
                        sampled |-> 0, spawn_rate |-> 0]
            /\ UNCHANGED <<bombVars, shooter, game_ticks, score, highest_score,
                           store, running, screens>>
    /\ UNCHANGED <<clientVars, game, crashed, blk, tEnd, speed, paused, fileOk, fileKind,
                   shooterDirection, snakeVars, breakoutVars, tetrisVars>>

AsteroidsNext == AsteroidsKeyDown \/ AsteroidsKeyUp \/ AsteroidsFrame

SpecAsteroids == AsteroidsInit /\ [][AsteroidsNext]_vars

(***************************************************************************)
(* SpecClient: Brickgame with Snake or Breakout on the Selector's stage,   *)
(* under every interleaving of frames and of the keys that change the      *)
(* speed of the game or the receiver of the key events: K_SPACE pressed    *)
(* and released, K_RETURN, K_p and K_BACKSPACE.  Of the game, its speed,   *)
(* paused and running are followed; what check_defeat returns in a frame   *)
(* is left open.                                                           *)
(***************************************************************************)
\* frames in one behaviour of SpecClient
MaxClientFrames == 2

\* the speed is doubled at most MaxDoublings times over the start speed
MaxDoublings == 3

\* ... and halved at most MaxHalvings times under it
MaxHalvings == 2

ClientGames == {"Snake", "Breakout"}

\* Snake.__init__, Breakout.__init__: self.speed
StartSpeed(g) ==
    (IF g = "Snake" THEN SnakeBaseSpeed ELSE BreakoutStartSpeed) * SpeedDen

\* Brickgame.__init__: the Selector has built the games
ClientInit ==
    /\ game = "Client"
    /\ crashed = FALSE
    /\ BlockIdle /\ SnakeIdle /\ BreakoutIdle /\ TetrisIdle /\ AsteroidsIdle
    /\ environment = "selector" /\ held = FALSE
    /\ playing \in ClientGames
    /\ t = 0 /\ tEnd = MaxClientFrames /\ speed = StartSpeed(playing)
    /\ paused = FALSE /\ running = TRUE /\ screens = <<>>
    /\ score = 0 /\ highest_score = 0 /\ store = 0
    /\ fileOk = TRUE /\ fileKind = "json"

\* Game.reset, of it what SpecClient follows
ClientReset ==
    /\ running' = TRUE /\ paused' = FALSE /\ screens' = <<>>
    /\ speed' = StartSpeed(playing)

ClientKeys == {"SPACE", "RETURN", "P", "BACKSPACE"}

\* Brickgame.handle_events(key, KEYDOWN): Selector.handle_events in the
\* selector, the handle_events of the game in the game
ClientKey(key) ==
    /\ game = "Client" /\ ~crashed
    /\ key = "SPACE" => ~held
    /\ held' = (held \/ key = "SPACE")
    /\ call' = [op |-> "handle_events", key |-> key, state |-> "KEYDOWN"]
    /\ IF environment = "selector"
       THEN IF key = "RETURN"
            THEN /\ environment' = "game"
                 /\ IF running
                    THEN UNCHANGED <<running, paused, screens, speed>>
                    ELSE ClientReset
            ELSE UNCHANGED <<environment, running, paused, screens, speed>>
       ELSE IF key = "BACKSPACE"
            THEN /\ environment' = "selector"
                 /\ UNCHANGED <<running, paused, screens, speed>>
       ELSE IF key = "RETURN"
            THEN ClientReset /\ UNCHANGED environment
       ELSE /\ paused' = IF key = "P" THEN ~paused ELSE paused
            /\ IF running /\ key = "SPACE"
               THEN /\ speed * 2 <= StartSpeed(playing) * (2 ^ MaxDoublings)
                    /\ speed' = speed * 2
               ELSE UNCHANGED speed
            /\ UNCHANGED <<environment, running, screens>>
    /\ UNCHANGED <<game, crashed, blk, bombVars, t, tEnd, score, highest_score,
                   store, fileOk, fileKind, playing, snakeVars, breakoutVars,
                   tetrisVars, asteroidsVars>>

ClientKeyDown == \E key \in ClientKeys : ClientKey(key)

\* Brickgame.handle_events(K_SPACE, KEYUP)
ClientKeyUp ==
    /\ game = "Client" /\ ~crashed
    /\ held /\ held' = FALSE
    /\ call' = [op |-> "handle_events", key |-> "SPACE", state |-> "KEYUP"]
    /\ IF environment = "game" /\ running
       THEN /\ speed * (2 ^ MaxHalvings) >= StartSpeed(playing) * 2
            /\ speed' = speed \div 2
       ELSE UNCHANGED speed
    /\ UNCHANGED <<game, crashed, blk, bombVars, t, tEnd, score, highest_score,
                   paused, running, screens, store, fileOk, fileKind,
                   environment, playing, snakeVars, breakoutVars, tetrisVars,
                   asteroidsVars>>

\* one frame of Brickgame.loop: animate_screen in the selector, manage(t) in
\* the game, where t % int(FPS/self.speed) comes before Game.manage
ClientFrame ==
    /\ game = "Client" /\ ~crashed /\ t < tEnd
    /\ t' = t + 1
    /\ call' = [op |-> "loop"]
    /\ IF environment = "game" /\ running /\ ~paused
       THEN IF Period(speed) = 0
            THEN crashed' = TRUE /\ UNCHANGED <<running, screens>>
            ELSE /\ \E d \in BOOLEAN :
                    \E gm \in {GameManage(running, paused, FALSE, d, screens)} :
                       running' = gm.running /\ screens' = gm.screens
                 /\ UNCHANGED crashed
       ELSE UNCHANGED <<crashed, running, screens>>
    /\ UNCHANGED <<game, blk, bombVars, tEnd, score, highest_score, speed,
                   paused, store, fileOk, fileKind, clientVars, snakeVars,
                   breakoutVars, tetrisVars, asteroidsVars>>

ClientNext == ClientKeyDown \/ ClientKeyUp \/ ClientFrame

SpecClient == ClientInit /\ [][ClientNext]_vars

(***************************************************************************)
(* The claims.                                                             *)
(***************************************************************************)
\* a frame of Snake in which Body.move ran
SnakeMoved == t' = t + 1 /\ segments' # segments

\* the coordinates of the entities of the running game and the membership of
\* its collections
EntityState ==
    CASE game = "Snake" -> <<segments, bodyGroup, food, foodGroup>>
      [] game = "Breakout" -> <<targetGroup, ball.coords, ballGroup, paddle.cell,
                                paddleGroup>>
      [] game = "Tetris" -> <<piece.cells, pieceGroup, fallen>>
      [] OTHER -> <<>>

\* C1: while paused is true, no manage call, no update_entities call and no
\* key event other than the pause toggle or reset (after either of which
\* paused is false) changes an entity's coordinates, a collection's
\* membership or the score.  Tetris.handle_events never tests paused, so in
\* Tetris the statement fails
C1_PausedFreezesEntities ==
    [][(paused /\ paused') => (EntityState' = EntityState /\ score' = score)]_vars


\* C2: between construction/reset and the next reset at most one terminal
\* transition (toggle_victory or toggle_defeat) runs, and never both.
C2_AtMostOneTerminalTransition == Len(screens) <= 1

\* C4: Block.update(t, speed) changes coords if and only if the direction is
\* not none, speed > 0 and t mod floor(FPS/speed) = 0, and then by exactly one
\* step of the direction; nothing else of the cell changes.  (For
\* speed > FPS the period is 0: the call raises and changes nothing.)
C4_UpdateMovesOnActionTicksOnly ==
    [][call'.op = "update" =>
        LET due == /\ blk.dir # "" /\ call'.speed > 0
                   /\ Period(call'.speed) # 0
                   /\ call'.t % Period(call'.speed) = 0
        IN  /\ (blk'.coords # blk.coords) <=> due
            /\ due => blk'.coords = Add2(blk.coords, CONVERT(blk.dir))
            /\ blk'.dir = blk.dir /\ blk'.disp = blk.disp]_vars

C4_Witness ==
    /\ game = "Block" /\ call.op = "update" /\ call.speed = 160 /\ call.t = 6
    /\ blk.dir = "down" /\ blk.coords = <<0, 1>>

\* C5 as claimed: set_direction(none) on a cell that had a direction leaves it
\* with direction none and displacement (0,0).
C5_SetDirectionNoneClears ==
    [][(call'.op = "set_direction" /\ call'.direction = "" /\ blk.dir # "")
        => (blk'.dir = "" /\ blk'.disp = <<0, 0>>)]_vars

\* C5 as amended: set_direction(none) changes nothing: the cell keeps its
\* direction, its displacement and its coords.
C5_SetDirectionNoneIsNoOp ==
    [][(call'.op = "set_direction" /\ call'.direction = "") => blk' = blk]_vars

C5_Witness ==
    /\ game = "Block" /\ call.op = "set_direction" /\ call.direction = ""
    /\ blk.dir = "left" /\ blk.disp = <<-DIST_BLOCKS, 0>>

\* C6: while Snake is running no two body segments share a coordinate and the
\* head is inside the grid; a state in which that fails is one in which
\* defeat has been signaled (the last screen drawn is the defeat screen).
C6_SnakeBodyInvariant ==
    game = "Snake" =>
        LET ok == /\ InGrid(segments[1])
                  /\ Cardinality(Range(segments)) = Len(segments)
        IN  /\ running => ok
            /\ ~ok => /\ ~running
                      /\ screens # <<>>
                      /\ screens[Len(screens)] = "defeat"

C6_Witness ==
    /\ game = "Snake" /\ ~running /\ screens = <<"defeat">>
    /\ InGrid(segments[1])
    /\ Cardinality(Range(segments)) < Len(segments)

C8_NoReversal ==
    [][/\ SnakeMoved =>
            Add2(segments'[1], <<-segments[1][1], -segments[1][2]>>)
                # Add2(segments[2], <<-segments[1][1], -segments[1][2]>>)
       /\ direction' # direction =>
            \/ /\ key_enabled /\ ~key_enabled'
               /\ direction' # Opposite(direction)
               /\ segments' = segments
            \/ /\ direction' = "down"
               /\ \E f \in FoodCells : SnakeIs(SnakeNew(f))'
       /\ (~key_enabled /\ key_enabled') => SnakeMoved]_vars

C8_Witness ==
    /\ game = "Snake" /\ running /\ direction = "left"
    /\ segments[1] = <<2, 6>> /\ key_enabled

\* a frame of Breakout in which manage() runs its action tick
BreakoutTick ==
    /\ game = "Breakout" /\ t' = t + 1 /\ ~crashed
    /\ running /\ ~paused /\ Period(speed) # 0 /\ t' % Period(speed) = 0

\* the state in which that tick calls check_paddle_reflect
BreakoutAtReflect ==
    Run(PaddleCheckPaddleDrag, BreakoutManageToPaddle(BreakoutState, fileOk))

\* the paddle's own cells, left to right
PaddleCells(s) == [k \in 1..3 |-> s.paddle.cell[k]]

\* the paddle cell the ball is about to touch: the one straight below it
\* if there is one, else the one diagonally ahead; <<>> if there is none
ContactCell(s) ==
    LET v == <<s.ball.coords[1], s.ball.coords[2] + s.ball.velocity[2]>>
        d == <<s.ball.coords[1] + s.ball.velocity[1],
               s.ball.coords[2] + s.ball.velocity[2]>>
    IN  IF v \in Range(PaddleCells(s)) THEN v
        ELSE IF d \in Range(PaddleCells(s)) THEN d
        ELSE <<>>

\* the ball is in play on its own at the reflection step
BallFree(s) == ~s.raised /\ s.ball.dir # "" /\ ~s.dragging
               /\ Range(s.paddle.blocks) = {1, 2, 3}

\* C3 (as stated): after reset() the game is in the state of a freshly
\* constructed game, the class-level control state (Paddle.direction,
\* Paddle.dragging) included, whatever the state before.
C3_ResetGivesFreshGame ==
    [][BreakoutKey("RETURN") =>
         /\ \E s \in {BreakoutNew(FALSE, store')} : BreakoutIs(s)'
         /\ speed' = BreakoutStartSpeed * SpeedDen
         /\ ~paused' /\ running'
         /\ paddleDirection' = "" /\ dragging' = FALSE]_vars

\* C9 (as stated): when the launched ball is not dragged and, at the
\* paddle-reflection step, the cell straight or diagonally ahead of it is any
\* of the three paddle cells, its vertical velocity is -1 after that tick.
C9_AnyPaddleCellReflects ==
    [][BreakoutTick =>
         \A s \in {BreakoutAtReflect} :
            (BallFree(s) /\ ContactCell(s) # <<>>) => ball'.velocity[2] = -1]_vars

\* C10 (as stated): on contact with the paddle, check_paddle_reflect forces
\* the horizontal velocity to -1 on the leftmost cell, to +1 on the rightmost
\* cell, and leaves it as it is on the middle cell.
C10_EdgeCellsForceHorizontal ==
    [][BreakoutTick =>
         \A s \in {BreakoutAtReflect} :
            (BallFree(s) /\ ContactCell(s) # <<>>) =>
               LET vi == PaddleCheckPaddleReflect(s).ball.velocity[1]
               IN  /\ ContactCell(s) = PaddleCells(s)[1] => vi = -1
                   /\ ContactCell(s) = PaddleCells(s)[3] => vi = 1
                   /\ ContactCell(s) = PaddleCells(s)[2]
                        => vi = s.ball.velocity[1]]_vars

\* C11: when the last brick of a level is destroyed the level counter goes up
\* by one without any error, and when that level was level 3 the same manage
\* call ends the game in victory (running false, collections cleared).
\* Target(4) raises AttributeError, so the statement fails for level 3
C11_ClearingALevelIsWellDefined ==
    [][(game = "Breakout" /\ level' = level + 1)
         => /\ ~crashed'
            /\ level' = 4 => /\ ~running'
                             /\ screens' = Append(screens, "victory")
                             /\ targetGroup' = {} /\ ~ballGroup'
                             /\ paddleGroup' = {}]_vars

\* the cells FallenBlocks.grow adds to fallen in a step that locks a piece
\* without completing a line
Transferred == {c \in BagToSet(fallen') : CopiesIn(c, fallen') > CopiesIn(c, fallen)}

\* C12: whenever a piece is transferred into fallen, one of its cells is on
\* row 19 or directly above a cell of fallen.  try_spawn_next tests the
\* height calculate_dimensions measured before the move of the same tick,
\* so a piece that slides off its support in that tick is locked in the air
C12_LockedPieceIsSupported ==
    [][(game = "Tetris" /\ BagCardinality(fallen') = BagCardinality(fallen) + 4)
         => \E c \in Transferred :
               c[2] = GridH - 1 \/ BagIn(<<c[1], c[2] + 1>>, fallen)]_vars

\* the cells of row b that hold at least one sprite of the bag f
OccupiedInRow(f, b) == {c \in BagToSet(f) : c[2] = b}

\* C13: after FallenBlocks.remove_full_lines no row of fallen has 10 occupied
\* cells: every full row has been removed.  remove_full_lines counts the
\* sprites of a row, and a piece that spawns over fallen cells and locks
\* there leaves a row with 10 occupied cells and more than 10 sprites
C13_NoFullRowRemains ==
    game = "Tetris" =>
        \A b \in 0..(GridH - 1) : Cardinality(OccupiedInRow(fallen, b)) # GridW

\* the cells ahead of the ball: sideways, straight and diagonal
HitAhead ==
    [h |-> <<ball.coords[1] + ball.velocity[1], ball.coords[2]>>,
     v |-> <<ball.coords[1], ball.coords[2] + ball.velocity[2]>>,
     d |-> <<ball.coords[1] + ball.velocity[1],
             ball.coords[2] + ball.velocity[2]>>]

\* C14: when check_hit finds bricks both at (i+vi, j) and at (i, j+vj), it
\* reverses both velocity components and destroys those two bricks and the
\* brick at (i+vi, j+vj) if there is one, and nothing else: the corner case
\* comes before the horizontal, vertical and diagonal ones.
C14_CornerHitFirst ==
    [][(CheckHit /\ HitAhead.h \in targetBlock /\ HitAhead.v \in targetBlock)
         => /\ ball'.velocity = <<-ball.velocity[1], -ball.velocity[2]>>
            /\ targetBlock' = targetBlock \ {HitAhead.h, HitAhead.v, HitAhead.d}
            /\ targetGroup' = targetBlock'
            /\ ball'.coords = ball.coords]_vars

\* the scenario of the claim after the call: the ball at (5, 1) now moves
\* down and left, two bricks were destroyed and (6, 1), (5, 0) are gone
C14_Witness ==
    /\ game = "CheckHit" /\ ball.coords = <<5, 1>> /\ ball.velocity = <<-1, 1>>
    /\ number = Cardinality(targetGroup) + 2
    /\ targetBlock \cap {<<6, 1>>, <<5, 0>>, <<6, 0>>} = {}

\* C15: once the ball has been launched, both components of its velocity are
\* -1 or 1 in every state, whatever it has hit since.
C15_VelocityIsDiagonal ==
    (game = "Breakout" /\ ball.dir # "")
        => ball.velocity \in {-1, 1} \X {-1, 1}

\* the ball comes down to the left after breaking (6, 9) on its way up
C15_Witness ==
    /\ game = "Breakout" /\ ball.dir # "" /\ t = 10 /\ score = 15
    /\ ball.velocity = <<-1, 1>> /\ <<6, 9>> \notin targetGroup

\* the states in which a tick of manage() calls check_hit: at its start, and
\* after the first border reflection
CheckHitCalls ==
    LET UpdateScore(v) == BreakoutUpdateScore(v, fileOk)
        second == Run(BallCheckBorderReflect, Run(BreakoutManageLevels,
                  Run(UpdateScore, Run(TargetCheckHit, BreakoutState))))
    IN  {s \in {BreakoutState, second} : ~s.raised}

\* one call of check_hit in the state s: nothing changes, or 1, 2 or 3 cells
\* leave the mapping and the collection and the velocity changes
CheckHitEffect(s) ==
    \E r \in {TargetCheckHit(s)} :
       /\ r.targetBlock \subseteq s.targetBlock
       /\ r.targetGroup \subseteq s.targetGroup
       /\ s.targetBlock \ r.targetBlock = s.targetGroup \ r.targetGroup
       /\ \/ r.targetBlock = s.targetBlock /\ r.ball.velocity = s.ball.velocity
          \/ /\ Cardinality(s.targetBlock \ r.targetBlock) \in 1..3
             /\ r.ball.velocity # s.ball.velocity

\* C16 (as stated): every call of check_hit leaves the targets and the
\* velocity as they are or removes 1, 2 or 3 target cells and changes the
\* velocity, and the target mapping and the target collection always hold
\* the same cells.
C16_MappingAlwaysEqualsCollection ==
    [][game = "Breakout" =>
         /\ BreakoutTick => \A s \in CheckHitCalls : CheckHitEffect(s)
         /\ targetBlock' = targetGroup']_vars

\* C16 (amended): every call of check_hit leaves the targets and the velocity
\* as they are or removes 1, 2 or 3 target cells and changes the velocity,
\* and the mapping and the collection hold the same cells while the game
\* runs, so at every call; the end of the game empties the collection only.
C16_MappingEqualsCollectionWhileRunning ==
    [][game = "Breakout" =>
         /\ BreakoutTick => \A s \in CheckHitCalls : CheckHitEffect(s)
         /\ running' => targetBlock' = targetGroup'
         /\ targetGroup' \subseteq targetBlock']_vars

\* the first check_hit of frame 10 has removed the brick (6, 9), alone
C16_Witness ==
    /\ game = "Breakout" /\ running /\ t = 10 /\ ball.coords = <<5, 11>>
    /\ targetBlock = Sketch(1) \ {<<6, 9>>} /\ targetGroup = targetBlock

\* the velocity of the ball b points out of the grid through the left, the
\* right or the top border
PointsOut(b) ==
    \/ b.coords[1] = 0 /\ b.velocity[1] = -1
    \/ b.coords[1] = GridW - 1 /\ b.velocity[1] = 1
    \/ b.coords[2] = 0 /\ b.velocity[2] = -1

\* the state at the end of the action tick of manage(), before the sprites
\* are updated
BreakoutAfterTick == BreakoutManageTick(BreakoutState, paddleDirection, speed, fileOk)

BallInGrid == 0 <= ball.coords[1] /\ ball.coords[1] <= GridW - 1 /\ ball.coords[2] >= 0

\* C17 (as stated): at the end of every movement tick the velocity of the
\* launched ball does not point out of the grid through the left, right or
\* top border, and in every state its coordinates satisfy 0 <= i <= 9 and
\* j >= 0.
C17_VelocityNeverPointsOut ==
    [][game = "Breakout" =>
         /\ BreakoutTick =>
               \A s \in {BreakoutAfterTick} :
                  (~s.raised /\ s.ball.dir # "") => ~PointsOut(s.ball)
         /\ BallInGrid']_vars

\* C17 (amended): at the end of every movement tick the velocity of the
\* launched ball does not point out of the grid through the left, right or
\* top border, unless the paddle has just caught the ball and carried it to
\* the border, where it rests with no displacement; in every state the
\* coordinates of the ball satisfy 0 <= i <= 9 and j >= 0.
C17_BallStaysInGrid ==
    [][game = "Breakout" =>
         /\ BreakoutTick =>
               \A s \in {BreakoutAfterTick} :
                  (~s.raised /\ s.ball.dir # "" /\ PointsOut(s.ball))
                     => s.dragging /\ s.ball.disp = <<0, 0>>
         /\ BallInGrid']_vars

\* the ball has bounced off the right border at (9, 13) in frame 7 and is
\* back at (8, 12)
C17_Witness ==
    /\ game = "Breakout" /\ ball.dir # "" /\ t = 7
    /\ ball.coords = <<8, 12>> /\ ball.velocity = <<-1, -1>>

\* C18: when a game is torn down (reset, toggle_victory, toggle_defeat) the
\* registry Bomb._bombs is left without any charge of the session that ended.
\* Nothing clears the registry: the charges stay in it, out of their group,
\* and the next move and check_explosion act on them
C18_TeardownClearsRegistry ==
    [][(game = "Bomb" /\ call'.op = "teardown") => bombs' = <<>>]_vars

\* the charge c with every cell shifted by one step in the direction d
Shifted(c, d) ==
    [c EXCEPT !.cells = [n \in 1..Len(c.cells) |-> Add2(c.cells[n], CONVERT(d))]]

\* C19: Bomb.move(direction) shifts every cell of every registered charge by
\* the same one-unit step, and the charges that leave the registry are
\* exactly those whose anchor, after the step, is on a row < 0 while moving
\* up or >= 17 while moving down; the others keep their order.
C19_MoveShiftsAndRetires ==
    [][(game = "Bomb" /\ call'.op = "move") =>
         LET d == call'.direction
             sh == [k \in 1..Len(bombs) |-> Shifted(bombs[k], d)]
             out == {k \in 1..Len(bombs) :
                       \/ d = "up" /\ sh[k].cells[1][2] < 0
                       \/ d = "down" /\ sh[k].cells[1][2] >= 17}
             Before(k) == Cardinality({m \in 1..k : m \notin out})
         IN  /\ Len(bombs') = Len(bombs) - Cardinality(out)
             /\ \A k \in (1..Len(bombs)) \ out : bombs'[Before(k)] = sh[k]
             /\ targets' = targets]_vars

\* the charge constructed at (4, 10) has been moved up to row 0 and is still
\* registered, all its 16 cells shifted alike
C19_Witness ==
    /\ game = "Bomb" /\ call = [op |-> "move", direction |-> "up"]
    /\ Len(bombs) = 1 /\ bombs[1].cells = BombCells(4, 0) /\ bombs[1].drawn

\* C20: Bomb.explode(target, index) destroys exactly the target cells in
\* [i-2, i+5] x [j-2, j+5], (i, j) the anchor of the indexed charge, removes
\* that charge from the registry and leaves the other charges as they are.
C20_ExplodeBlastWindow ==
    [][(game = "Bomb" /\ call'.op = "explode" /\ ~crashed') =>
         LET k == Place0(bombs, call'.index)
             i == bombs[k].cells[1][1]
             j == bombs[k].cells[1][2]
         IN  /\ targets' \subseteq targets
             /\ targets \ targets' =
                  {e \in targets : /\ i - 2 <= e[1] /\ e[1] <= i + 5
                                   /\ j - 2 <= e[2] /\ e[2] <= j + 5}
             /\ Len(bombs') = Len(bombs) - 1
             /\ \A n \in 1..Len(bombs') :
                   bombs'[n] = bombs[IF n < k THEN n ELSE n + 1]]_vars

\* explode(index=0) of the charge at (4, 10) has destroyed (2, 8) and (9, 15)
\* and left (1, 8), (9, 16), (5, 5) and the charge at (4, 19)
C20_Witness ==
    /\ game = "Bomb" /\ call = [op |-> "explode", index |-> 0]
    /\ targets = BombTargetCells \ {<<2, 8>>, <<9, 15>>}
    /\ Len(bombs) = 1 /\ bombs[1].cells = BombCells(4, 19)

\* the target cells of tg on the footprint [i, i+3] x [j, j+3] of the charge c
OnFootprint(c, tg) ==
    {e \in tg : /\ c.cells[1][1] <= e[1] /\ e[1] <= c.cells[1][1] + 3
                /\ c.cells[1][2] <= e[2] /\ e[2] <= c.cells[1][2] + 3}

\* the target cells of tg in the blast window [i-2, i+5] x [j-2, j+5] of c
InBlast(c, tg) ==
    {e \in tg : /\ c.cells[1][1] - 2 <= e[1] /\ e[1] <= c.cells[1][1] + 5
                /\ c.cells[1][2] - 2 <= e[2] /\ e[2] <= c.cells[1][2] + 5}

\* the list seq without the elements at the places of the set E
Dropping(seq, E) ==
    LET kept == (1..Len(seq)) \ E
        At(n) == CHOOSE k \in kept : Cardinality({m \in kept : m <= k}) = n
    IN  [n \in 1..Cardinality(kept) |-> seq[At(n)]]

C22_RotateIffNextLayoutFits ==
    [][(TetrisKey("UP") /\ running) =>
         LET table == Offsets(piece.active_shape)
             k == piece.next_id
             layout == {Add2(piece.coords, table[k][n]) : n \in 1..4}
             fits == \A c \in layout :
                        /\ 0 <= c[1] /\ c[1] < 10 /\ c[2] < 20
                        /\ ~BagIn(c, fallen)
         IN  /\ fits => /\ Range(piece'.cells) = layout /\ pieceGroup' = layout
                         /\ piece'.next_id = (k % Len(table)) + 1
                         /\ piece'.coords = piece.coords
             /\ ~fits => piece' = piece /\ pieceGroup' = pieceGroup
             /\ fallen' = fallen]_vars

\* the first key of a game was UP: the T spawned at (4, 0) stands in its
\* second layout, one cell above the grid
C22_Witness ==
    /\ game = "Tetris" /\ events = 1 /\ piece.active_shape = "T"
    /\ piece.next_id = 3 /\ piece.coords = <<4, 0>>
    /\ pieceGroup = {<<3, 0>>, <<4, 0>>, <<4, -1>>, <<4, 1>>}

\* the state in which fall_inst leaves the game when SPACE is pressed
AfterFallInst == PieceFallInst(TetrisState)

\* the gap under the piece: the minimum, over its columns, of the number of
\* free rows between its lowest cell there and the highest fallen cell
\* below it, or the floor
GapUnderPiece ==
    LET cells == Range(piece.cells)
        Low(i) == SetMax({c[2] : c \in {d \in cells : d[1] = i}})
        Below(i) == {c[2] : c \in {d \in BagToSet(fallen) :
                                     d[1] = i /\ d[2] > Low(i)}}
    IN  SetMin({IF Below(i) # {} THEN SetMin(Below(i)) - Low(i) - 1
                ELSE 19 - Low(i) : i \in {c[1] : c \in cells}})

\* C23: hard-drop (fall_inst, on SPACE) moves every cell of the piece down by
\* the gap under the piece; afterwards no piece cell overlaps a fallen cell or
\* lies below row 19, and fall_inst itself transfers nothing to fallen.
C23_HardDropLandsOnTop ==
    [][(TetrisKey("SPACE") /\ running) =>
         /\ AfterFallInst.piece.cells =
              [n \in 1..4 |-> Add2(piece.cells[n], <<0, GapUnderPiece>>)]
         /\ AfterFallInst.pieceGroup = Range(AfterFallInst.piece.cells)
         /\ \A c \in AfterFallInst.pieceGroup :
               ~BagIn(c, fallen) /\ c[2] <= 19
         /\ AfterFallInst.fallen = fallen]_vars

\* C24: when the read of the score store fails in update_score, the call
\* returns normally with running and paused unchanged, the score is compared
\* with nothing (the remembered high score stays), no write to the store is
\* attempted and the store is left as it was.
C24_FailedReadLeavesStoreAlone ==
    [][(game = "Score" /\ call'.op = "update_score" /\ fileKind # "json") =>
         /\ ~crashed' /\ running' = running /\ paused' = paused
         /\ highest_score' = highest_score
         /\ ~call'.opened /\ call'.written = <<>>
         /\ fileKind' = fileKind /\ store' = store]_vars

\* C25: after a call of update_score with a stored high score in
\* [0, 10^8 - 1], 0 <= score <= 10^8 - 1, and the store is written only when
\* the score is strictly greater than the stored high score, with that new,
\* strictly greater high score.
C25_WritesTheNewHighOnly ==
    [][(game = "Score" /\ call'.op = "update_score" /\ fileKind = "json") =>
         /\ 0 <= score' /\ score' <= MaxScore - 1
         /\ call'.written # <<>> =>
               /\ score + call'.gain > store
               /\ call'.written = <<score'>> /\ score' > store
               /\ store' = score']_vars

\* C29: at every tick at which a BlinkingBlock exists in a game (the food of
\* Snake), it is visible if and only if (t mod FPS) < FPS/2.
C29_VisibleInFirstHalfSecond ==
    (game = "Snake" /\ foodGroup # {}) => (foodOn <=> (t % FPS) * 2 < FPS)

\* C28: before the first shot of a level the ball of Breakout rides on the
\* paddle, also while the launch key is held, and it leaves the paddle only
\* in the step that releases the launch key, with velocity (1,-1).
C28_LaunchedOnRelease ==
    [][(game = "Breakout" /\ 0 \in paddleGroup /\ 0 \notin paddleGroup'
        /\ running')
       => (speed' * 2 = speed /\ ball'.velocity = <<1, -1>>)]_vars

\* C30: at every frame boundary no Block is a member of more than one of
\* the entity groups of its game. The target, paddle and ball Blocks of
\* Breakout are distinct objects, the ball (0 in paddleGroup) is the one
\* Block two groups can hold: it is never in the ball group and in the
\* paddle group at once.
C30_GroupsDisjoint ==
    game = "Breakout" => ~(ballGroup /\ 0 \in paddleGroup)

\* C26: in Asteroids every destroyed asteroid adds 5 to the score, whether
\* a Bullet or the explosion of a Bomb has destroyed it: each manage call
\* adds 5 times the asteroids it has destroyed, so that the score is 5
\* times the asteroids destroyed since the game began.
C26_FiveForEveryDestroyed ==
    [][(game = "Asteroids" /\ t' = t + 1)
       => score' = score + 5 * (call'.collisions + call'.blasted)]_vars

\* C27: in Asteroids a manage call of the running, unpaused game toggles
\* the defeat as soon as an asteroid has come on the row of the shooter
\* (row 19, any column), on the shooter or on a row >= 20, and only then.
C27_DefeatOnShooterRow ==
    [][(game = "Asteroids" /\ t' = t + 1 /\ running /\ ~paused)
       => LET hit == targets \ bulletGroup
              moved == IF t' % Period(AsteroidsSpeed * SpeedDen) = 0
                       THEN {<<c[1], c[2] + 1>> : c \in hit} ELSE hit
          IN  /\ running'
                    => \A c \in targets' \ targets : c[2] < 19 /\ c # shooter'
              /\ ~running'
                    => \E c \in moved : c[2] >= 19 \/ c = shooter']_vars

\* C31: in Tetris the speed changes only in a frame whose tick is a multiple
\* of 30 * FPS, while the game runs unpaused, by the factor 10^0.05 (a reset
\* puts it back to 1), and the speed is never above 10.
C31_SpeedScalesUpToTen ==
    [][game = "Tetris"
       => /\ speed' # speed
                => \/ speed' = TetrisSpeeds[1] /\ t' = t
                   \/ /\ t' = t + 1 /\ t' % (30 * FPS) = 0
                      /\ running /\ ~paused
                      /\ speed' = TetrisScale(speed)
          /\ speed' <= 10 * TetrisSpeedDen]_vars

\* C32: when the level L of Breakout is cleared the score grows by the
\* bonus 3000 + 3000 * (L - 1), L the level just cleared, on top of the
\* value (15, 20, 30 at the levels 1, 2, 3) of each brick destroyed.
C32_LevelClearBonus ==
    [][(game = "Breakout" /\ level' = level + 1)
       => LET each == CASE level = 1 -> 15 [] level = 2 -> 20 [] level = 3 -> 30
                        [] OTHER -> 0
          IN  score' = score + Cardinality(targetGroup) * each
                             + 3000 + 3000 * (level - 1)]_vars

\* C33: whenever the rejection loop of Snake.check_eat runs (the head is on
\* the food in a manage call of the running, unpaused game) the body has at
\* most 199 segments and a cell of the grid is free of the body, so that
\* the loop ends, with the food on a cell no segment occupies.
C33_RespawnEndsOnFreeCell ==
    [][(game = "Snake" /\ t' = t + 1 /\ running /\ ~paused
        /\ segments[1] = food)
       => /\ Len(segments) <= SnakeFull - 1
          /\ AllCells \ Range(segments) # {}
          /\ food' \in AllCells \ Range(segments)]_vars

C33_Witness ==
    /\ game = "Snake" /\ running /\ growing
    /\ Len(segments) = SnakeFull - 1
    /\ food \in AllCells \ Range(segments)

\* C34: in Asteroids, try_spawn_bomb is called exactly once in each frame in
\* which the asteroids move and in no other frame, and the spawn rate of
\* its draw at the game tick gt is 0.1% (6/6000) while gt < 180*FPS and
\* 0.15% (9/6000) from then on.
C34_SpawnRateSampledOnAsteroidTicks ==
    [][(game = "Asteroids" /\ t' = t + 1)
       => /\ call'.sampled
                = (IF running /\ ~paused
                      /\ t' % Period(AsteroidsSpeed * SpeedDen) = 0
                   THEN 1 ELSE 0)
          /\ call'.sampled = 1
                => call'.spawn_rate
                       = (IF game_ticks' < 180 * FPS THEN 6 ELSE 9)]_vars

\* C35: in Snake and Breakout played through Brickgame, after every key
\* event and every frame the speed is the start speed of the game while
\* K_SPACE is up and twice the start speed while it is down; the period
\* int(FPS/speed) is at least 1; and a press of K_SPACE that reaches the
\* running game leaves the speed above the start speed.
C35_SpeedIsBaseOrTwice ==
    [][game = "Client"
       => /\ speed' = (IF held' THEN 2 ELSE 1) * StartSpeed(playing)
          /\ Period(speed') >= 1
          /\ (/\ call' = [op |-> "handle_events", key |-> "SPACE",
                          state |-> "KEYDOWN"]
              /\ environment = "game" /\ running)
                => speed' > StartSpeed(playing)]_vars

\* the Blocks of the paddle's list that are not the ball are its three
\* Blocks, on row 19 in adjacent columns of the grid
PaddleIsWhole ==
    /\ SelectSeq(paddle.blocks, LAMBDA k : k # 0) = <<1, 2, 3>>
    /\ \A k \in 1..3 : /\ paddle.cell[k][2] = 19
                       /\ paddle.cell[k][1] = paddle.cell[1][1] + k - 1
                       /\ paddle.cell[k][1] \in 0..(GridW - 1)

\* how many times the ball is in the paddle's list
BallOnPaddle == Cardinality({k \in 1..Len(paddle.blocks) : paddle.blocks[k] = 0})

\* C36: in Breakout, after every step the paddle's list holds its three
\* Blocks, on row 19 in adjacent columns within 0..9, and the ball once if
\* it has not been launched or is dragged and not at all otherwise;
\* Paddle.dragging is true only while the ball is in the list; and a drag
\* is over at the next movement tick.
C36_PaddleListWellFormed ==
    [][(game = "Breakout" /\ ~crashed')
       => /\ PaddleIsWhole'
          /\ BallOnPaddle'
                = (IF ball'.velocity = <<0, 0>> \/ dragging' THEN 1 ELSE 0)
          /\ (/\ dragging /\ t' = t + 1 /\ running /\ ~paused
              /\ t' % Period(speed) = 0) => ~dragging']_vars

\* C37: in Tetris, at every frame boundary FallenBlocks.height is 20 minus
\* the smallest row of a cell of the fallen group, and 0 when the group is
\* empty; and check_defeat returns True exactly when a cell of the group
\* lies above row 0.
C37_HeightIsTopOfFallen ==
    game = "Tetris" /\ ~crashed
    => /\ fallenHeight
             = (IF BagToSet(fallen) = {} THEN 0
                ELSE 20 - SetMin({c[2] : c \in BagToSet(fallen)}))
       /\ TetrisCheckDefeat(TetrisState)
             <=> (\E c \in BagToSet(fallen) : c[2] < 0)

\* C38: in Asteroids, no frame takes a Bullet from below an asteroid of its
\* column to above it: a Bullet that was below an asteroid before the frame
\* is not above that asteroid after it, both still there.
C38_NoPassThrough ==
    [][(game = "Asteroids" /\ t' = t + 1)
       => \A a \in targets : \A b \in bulletGroup :
             (b[1] = a[1] /\ b[2] > a[2])
             => ~(\E a2 \in {a, <<a[1], a[2] + 1>>} \cap targets' :
                     /\ <<b[1], b[2] - 1>> \in bulletGroup'
                     /\ b[2] - 1 < a2[2])]_vars

\* C39: in Breakout, at every frame boundary of the running game the
\* launched ball is on no cell of a brick of the target group.
C39_BallOnNoBrick ==
    (game = "Breakout" /\ ~crashed /\ running /\ ball.velocity # <<0, 0>>)
    => ball.coords \notin targetGroup

\* C40: in Snake, at every frame boundary of the running game the food is
\* on no segment of the body other than the head.
C40_FoodOffTheBody ==
    (game = "Snake" /\ ~crashed /\ running)
    => food \notin Range(Tail(segments))

=========================================================================
